---- MODULE Spec2Model ----
(***************************************************************************)
(* Level-based perp trading bot (nado_bot): the PositionTracker registry,  *)
(* the StrategyEngine handlers that drive it and the OrderManager gateway  *)
(* calls they make.  Every `await` on gateway or timer I/O is a point at   *)
(* which another event handler may run, so each handler is split into the *)
(* synchronous segments between its awaits.                                *)
(*                                                                         *)
(* Prices are integers in units of 0.0001 (the precision to which the      *)
(* level calculator rounds).  An order digest is opaque to the program; it *)
(* is written here as the order's product, side and kind with a nonce that *)
(* tells apart the orders of one kind the program still remembers.         *)
(***************************************************************************)
EXTENDS Integers, Sequences, FiniteSets, Bags, TLC

\* ---------------------------------------------------------------- bounds
MaxNonce == 2
MaxTasks == 2
MaxStarts == 1
MaxTicks == 1
Tick == 2

\* ------------------------------------------------------------- parameters
ProductSeq == <<4>>
Products == {ProductSeq[i] : i \in DOMAIN ProductSeq}
OrderSize == [p \in Products |-> 1]
RLevelsCount == 1
SLevelsCount == 1
\* (high, low, close) triples the indexer may report
Candles == {<<10, 8, 9>>}
\* (bid, ask) pairs of best_bid_offer events and of getLatestMarketPrice
Quotes == {<<13, 15>>}
\* price fields of fill events: mantissa m and decimal exponent e, the value
\* being m * 10^e; e = -1 marks text that does not parse to a finite number
StreamPrices == {[m |-> 9, e |-> 0], [m |-> 8, e |-> 18]}
Reasons == {"filled", "cancelled", "placed"}
\* whether the venue's getAllMarkets answers during a run
MarketsAnswers == BOOLEAN
\* sides whose entry orders the venue fills
FilledSides == {"long"}

Sides == {"long", "short"}
Kinds == {"entry", "tp", "sl"}
NoDigest == [productId |-> 0, side |-> "none", kind |-> "none", nonce |-> 0]
NoPrice == -1
Digests == [productId : Products, side : Sides, kind : Kinds, nonce : 1..MaxNonce]
Terminal == {"tp_hit", "sl_hit", "cancelled"}
Active == {"pending", "filled"}

VARIABLES
  objs,                  \* the LevelPosition objects still referenced, by entry digest
  positions,             \* PositionTracker.positions: the Map's objects, in Map order
  digestToPositionId,    \* PositionTracker.digestToPositionId
  levels,                \* StrategyEngine.levels
  isRunning,             \* StrategyEngine.isRunning
  latestPrices,          \* StrategyEngine.latestPrices (0: no entry)
  levelRefreshInterval,  \* StrategyEngine.levelRefreshInterval is set
  timers,                \* number of interval timers that are scheduled
  priceIncrementLoaded,  \* OrderManager.priceIncrementByProduct is filled
  marketsUp,             \* the venue's getAllMarkets answers during this run
  starts,                \* number of 'connected' signals handled
  ticks,                 \* number of times the refresh timer fired
  exited,                \* process.exit was called
  tasks                  \* handler activations suspended at an await

\* WebSocketManager
VARIABLES
  ws,                    \* WebSocketManager.ws is set (to the latest socket)
  readyState,            \* readyState of the latest socket ("none": no socket yet)
  reconnectAttempts,     \* WebSocketManager.reconnectAttempts
  isShuttingDown,        \* WebSocketManager.isShuttingDown
  pendingMessages,       \* WebSocketManager.pendingMessages
  pingInterval,          \* WebSocketManager.pingInterval is set
  reconnectTimer,        \* delay of the scheduled reconnect timeout (0: none)
  transmitted,           \* the payloads handed to a socket's send, in order
  sends,                 \* number of calls of WebSocketManager.send
  closes,                \* close events since the last open event
  dispatched             \* the events emitted to the subscribers, with their handlers

\* OrderManager
VARIABLES
  call,                  \* the gateway operation under way, suspended at a client call
  outcome,               \* what the last gateway operation handed to its caller
  priceIncrementLoadPromise, \* OrderManager: a load of the tick sizes is under way
  ensureCalls,           \* where each caller of ensurePriceIncrementsLoaded stands
  marketFetches          \* calls of getAllMarkets made so far

ticksVars == <<priceIncrementLoadPromise, ensureCalls, marketFetches>>

gatewayVars == <<call, outcome, priceIncrementLoadPromise, ensureCalls, marketFetches>>

\* the pure computations, applied to arguments chosen at the start
VARIABLES
  pivotCalc,             \* a call of calculatePivotLevels: arguments, result
  exitCalc               \* the TP/SL computation of onFill: arguments, result

calcVars == <<pivotCalc, exitCalc>>

engineVars == <<objs, positions, digestToPositionId, levels, isRunning, latestPrices,
                levelRefreshInterval, timers, priceIncrementLoaded, marketsUp,
                starts, ticks, exited, tasks>>

streamVars == <<ws, readyState, reconnectAttempts, isShuttingDown, pendingMessages,
                pingInterval, reconnectTimer, transmitted, sends, closes, dispatched>>

vars == <<objs, positions, digestToPositionId, levels, isRunning, latestPrices,
          levelRefreshInterval, timers, priceIncrementLoaded, marketsUp,
          starts, ticks, exited, tasks,
          ws, readyState, reconnectAttempts, isShuttingDown, pendingMessages,
          pingInterval, reconnectTimer, transmitted, sends, closes, dispatched,
          call, outcome,
          priceIncrementLoadPromise, ensureCalls, marketFetches,
          pivotCalc, exitCalc>>

maxReconnectAttempts == 20
baseReconnectDelay == 1000
maxReconnectDelay == 30000

\* the WebSocketManager after its constructor
InitStream ==
  /\ ws = FALSE
  /\ readyState = "none"
  /\ reconnectAttempts = 0
  /\ isShuttingDown = FALSE
  /\ pendingMessages = <<>>
  /\ pingInterval = FALSE
  /\ reconnectTimer = 0
  /\ transmitted = <<>>
  /\ sends = 0
  /\ closes = 0
  /\ dispatched = <<>>

\* no gateway operation is under way and none has returned
NoCall == [op |-> "none", pc |-> "idle", productId |-> 0, price |-> 0, trigger |-> 0,
           submitted |-> 0, ticksFailed |-> FALSE]

NoOutcome == [op |-> "none", threw |-> FALSE, success |-> FALSE, submittedPrice |-> NoPrice,
              submittedTriggerPrice |-> NoPrice, ticksFailed |-> FALSE,
              clientFailed |-> FALSE]

\* the callers of ensurePriceIncrementsLoaded (order submissions)
MaxCallers == 3
Callers == 1..MaxCallers

InitGateway ==
  /\ call = NoCall
  /\ outcome = NoOutcome
  /\ priceIncrementLoadPromise = FALSE
  /\ ensureCalls = [c \in Callers |-> "idle"]
  /\ marketFetches = 0

\* ------------------------------------------------------- PositionTracker
\* The tracker state is passed around as a record tr = [objs, positions, idx]
\* so that a handler segment can apply several tracker calls in a row.

PositionId(productId, side, level) == <<productId, side, level>>

\* the elements of a sequence
Range(s) == {s[i] : i \in DOMAIN s}

\* Map.get on positions: the object stored under id, or NoDigest
PositionsGet(tr, id) ==
  IF \E i \in DOMAIN tr.positions : tr.objs[tr.positions[i]].id = id
    THEN tr.positions[CHOOSE i \in DOMAIN tr.positions :
                        tr.objs[tr.positions[i]].id = id]
    ELSE NoDigest

\* a Map that kept the old entry next to the new one
PositionsSetAppend(ps, os, id, ref) == Append(ps, ref)

\* Map.set on positions: an object stored under the same key is replaced in
\* place, a new key is appended (a Map iterates in insertion order)
PositionsSet(ps, os, id, ref) ==
  IF \E i \in DOMAIN ps : os[ps[i]].id = id
    THEN [i \in DOMAIN ps |-> IF os[ps[i]].id = id THEN ref ELSE ps[i]]
    ELSE Append(ps, ref)

createPosition(tr, productId, level, side, size, entryOrderDigest) ==
  LET id == PositionId(productId, side, level)
      position == [id |-> id, productId |-> productId, level |-> level,
                   side |-> side, size |-> size,
                   entryOrderDigest |-> entryOrderDigest,
                   tpOrderDigest |-> NoDigest, slOrderDigest |-> NoDigest,
                   status |-> "pending", fillPrice |-> NoPrice]
      os == (entryOrderDigest :> position) @@ tr.objs
  IN [objs |-> os,
      positions |-> PositionsSet(tr.positions, os, id, entryOrderDigest),
      idx |-> (entryOrderDigest :> id) @@ tr.idx]

\* the object a digest resolves to through the index, or NoDigest
getByDigest(tr, digest) ==
  IF digest \in DOMAIN tr.idx THEN PositionsGet(tr, tr.idx[digest]) ELSE NoDigest

\* a lookup that falls back to the first registered position
getByEntryDigestOrFirst(tr, digest) ==
  IF digest \in DOMAIN tr.idx THEN PositionsGet(tr, tr.idx[digest])
  ELSE IF tr.positions # <<>> THEN tr.positions[1]
  ELSE NoDigest

\* the object an entry digest resolves to through the index, or NoDigest
getByEntryDigest(tr, digest) ==
  IF digest \in DOMAIN tr.idx THEN PositionsGet(tr, tr.idx[digest]) ELSE NoDigest

\* a markFilled that indexes the protective orders before looking up the entry
markFilledIndexFirst(tr, entryDigest, fillPrice, tpDigest, slDigest) ==
  LET posId == IF entryDigest \in DOMAIN tr.idx THEN tr.idx[entryDigest]
               ELSE PositionId(entryDigest.productId, entryDigest.side, 0)
      r == PositionsGet(tr, posId)
      indexed == [tr EXCEPT !.idx = (slDigest :> posId) @@ ((tpDigest :> posId) @@ @)]
  IN IF r = NoDigest THEN indexed
     ELSE [indexed EXCEPT
             !.objs = [@ EXCEPT ![r] = [@ EXCEPT !.status = "filled",
                                                !.fillPrice = fillPrice,
                                                !.tpOrderDigest = tpDigest,
                                                !.slOrderDigest = slDigest]]]

markFilled(tr, entryDigest, fillPrice, tpDigest, slDigest) ==
  IF entryDigest \notin DOMAIN tr.idx THEN tr
  ELSE LET posId == tr.idx[entryDigest]
           r == PositionsGet(tr, posId)
       IN IF r = NoDigest THEN tr
          ELSE [tr EXCEPT
                  !.objs = [@ EXCEPT ![r] = [@ EXCEPT !.status = "filled",
                                                     !.fillPrice = fillPrice,
                                                     !.tpOrderDigest = tpDigest,
                                                     !.slOrderDigest = slDigest]],
                  !.idx = (slDigest :> posId) @@ ((tpDigest :> posId) @@ @)]

\* what markFilled returns: the position, NoDigest for null
markFilledReturn(tr, entryDigest) ==
  IF entryDigest \notin DOMAIN tr.idx THEN NoDigest
  ELSE PositionsGet(tr, tr.idx[entryDigest])

markExit(tr, digest, exitType) ==
  LET r == getByDigest(tr, digest)
  IN IF r = NoDigest THEN tr
     ELSE [tr EXCEPT !.objs = [@ EXCEPT ![r] = [@ EXCEPT !.status = exitType]]]

\* a markExit that hands back the leg that triggered
markExitPairedSameLeg(tr, digest, exitType) ==
  LET r == getByDigest(tr, digest)
  IN IF r = NoDigest THEN NoDigest
     ELSE IF exitType = "tp_hit" /\ tr.objs[r].tpOrderDigest # NoDigest
            THEN tr.objs[r].tpOrderDigest
     ELSE IF exitType = "sl_hit" /\ tr.objs[r].slOrderDigest # NoDigest
            THEN tr.objs[r].slOrderDigest
     ELSE NoDigest

\* the pairedDigest markExit returns (NoDigest also when it returns null)
markExitPaired(tr, digest, exitType) ==
  LET r == getByDigest(tr, digest)
  IN IF r = NoDigest THEN NoDigest
     ELSE IF exitType = "tp_hit" /\ tr.objs[r].slOrderDigest # NoDigest
            THEN tr.objs[r].slOrderDigest
     ELSE IF exitType = "sl_hit" /\ tr.objs[r].tpOrderDigest # NoDigest
            THEN tr.objs[r].tpOrderDigest
     ELSE NoDigest

\* a markCancelled that does not look at the status
markCancelledAnyStatus(tr, digest) ==
  LET r == getByDigest(tr, digest)
  IN IF r = NoDigest THEN tr
     ELSE [tr EXCEPT !.objs = [@ EXCEPT ![r] = [@ EXCEPT !.status = "cancelled"]]]

\* markCancelled: the position the digest resolves to becomes cancelled if it
\* is pending
markCancelled(tr, digest) ==
  LET r == getByDigest(tr, digest)
  IN IF r = NoDigest THEN tr
     ELSE IF tr.objs[r].status = "pending"
            THEN [tr EXCEPT !.objs = [@ EXCEPT ![r] = [@ EXCEPT !.status = "cancelled"]]]
            ELSE tr

hasActivePosition(tr, productId, side, level) ==
  LET r == PositionsGet(tr, PositionId(productId, side, level))
  IN r # NoDigest /\ tr.objs[r].status \in {"pending", "filled"}

\* the digests cleanup deletes from the index for one record
HeldDigests(pos) ==
  {pos.entryOrderDigest, pos.tpOrderDigest, pos.slOrderDigest} \ {NoDigest}

\* a cleanup that purges pending records as well
cleanupAlsoPending(tr) ==
  LET Done(r) == tr.objs[r].status \in {"tp_hit", "sl_hit", "cancelled", "pending"}
      Kept(r) == ~Done(r)
      dead == UNION {HeldDigests(tr.objs[r]) : r \in {q \in Range(tr.positions) : Done(q)}}
  IN [tr EXCEPT !.positions = SelectSeq(@, Kept),
                !.idx = [d \in (DOMAIN @) \ dead |-> @[d]]]

cleanup(tr) ==
  LET Done(r) == tr.objs[r].status \in {"tp_hit", "sl_hit", "cancelled"}
      Kept(r) == ~Done(r)
      dead == UNION {HeldDigests(tr.objs[r]) : r \in {q \in Range(tr.positions) : Done(q)}}
  IN [tr EXCEPT !.positions = SelectSeq(@, Kept),
                !.idx = [d \in (DOMAIN @) \ dead |-> @[d]]]

getActivePositions(tr) ==
  LET IsActive(r) == tr.objs[r].status \in {"pending", "filled"}
  IN SelectSeq(tr.positions, IsActive)

\* ----------------------------------------------------------- OrderManager
\* Math.round(n / d) for d > 0: halves round towards plus infinity
RoundDiv(n, d) == (2 * n + d) \div (2 * d)

\* the venue's priceIncrement of each product
PriceIncrement == [p \in Products |-> Tick]

\* the price as it came
normalizePriceRaw(loaded, productId, price) == price

\* normalizePrice after ensurePriceIncrementsLoaded left the increment map
\* filled (loaded) or empty
normalizePrice(loaded, productId, price) ==
  IF ~loaded THEN price
  ELSE RoundDiv(price, PriceIncrement[productId]) * PriceIncrement[productId]

\* ensurePriceIncrementsLoaded: a filled map is kept; an empty one is fetched,
\* and the fetch fills it (fetched) or fails and leaves it empty
ensurePriceIncrementsLoaded(loaded, fetched) == loaded \/ fetched

\* ---------------------------------------------------------------- levels
\* the README's levels: R1 = 2 PP - low, S1 = 2 PP - high, and from the second
\* level on PP + (k - 1) range
PivotPriceStandard(high, low, close, k) ==
  IF k = 1 THEN RoundDiv(2 * (high + low + close) - 3 * low, 3)
  ELSE IF k = -1 THEN RoundDiv(2 * (high + low + close) - 3 * high, 3)
  ELSE IF k > 0 THEN RoundDiv(high + low + close + 3 * (k - 1) * (high - low), 3)
  ELSE RoundDiv(high + low + close + 3 * (k + 1) * (high - low), 3)

\* calculatePivotLevels: pivot = (high + low + close) / 3, range = high - low,
\* each price rounded to four decimals, i.e. to a whole number of units
PivotPrice(high, low, close, k) ==
  RoundDiv(high + low + close + 3 * k * (high - low), 3)

calculatePivotLevels(high, low, close, rLevelsCount, sLevelsCount) ==
  [i \in 1..rLevelsCount |->
     [price |-> PivotPrice(high, low, close, i), side |-> "short"]]
  \o
  [i \in 1..sLevelsCount |->
     [price |-> PivotPrice(high, low, close, -i), side |-> "long"]]

NoCandle == <<>>

\* buildDynamicLevels for one product; cd is the candle triple, or NoCandle
\* when fetchCandlesticks returned null
ProductLevels(productId, cd) ==
  IF cd = NoCandle THEN <<>>
  ELSE LET pl == calculatePivotLevels(cd[1], cd[2], cd[3], RLevelsCount, SLevelsCount)
       IN [i \in DOMAIN pl |-> [productId |-> productId, price |-> pl[i].price,
                                side |-> pl[i].side, size |-> OrderSize[productId]]]

RECURSIVE BuildLevelsFrom(_, _)
BuildLevelsFrom(i, cds) ==
  IF i > Len(ProductSeq) THEN <<>>
  ELSE ProductLevels(ProductSeq[i], cds[ProductSeq[i]]) \o BuildLevelsFrom(i + 1, cds)

buildDynamicTradingLevels(cds) == BuildLevelsFrom(1, cds)

\* -------------------------------------------------------- StrategyEngine
\* normalizeStreamPrice: not finite gives 0; magnitudes above 1e12 are
\* x18-scaled and divided by 1e18
normalizeStreamPrice(value) ==
  IF value.e = -1 THEN 0
  ELSE IF value.e = 18 /\ value.m # 0 THEN value.m
  ELSE value.m


\* tried: the digests whose cancel the activation (of stop) has sent so far
Idle == [kind |-> "idle", pc |-> "idle", digest |-> NoDigest, fillPrice |-> NoPrice,
         pos |-> NoDigest, paired |-> NoDigest, cands |-> <<>>, prods |-> <<>>,
         todo |-> <<>>, lvl |-> <<>>, submitted |-> 0, tried |-> {}]

Tr == [objs |-> objs, positions |-> positions, idx |-> digestToPositionId]

\* the suspended activations
Running == BagToSet(tasks)

\* room for one more activation
HasRoom == BagCardinality(tasks) < MaxTasks

At(task, kind, pc) == task \in Running /\ task.kind = kind /\ task.pc = pc

\* what a handler segment leaves behind: the tracker, the activation (Idle when
\* the handler returned), whether it entered ensurePriceIncrementsLoaded, and
\* whether the handler ran to its end
Suspend(tr, task) == [tr |-> tr, task |-> task, fetch |-> FALSE, done |-> FALSE]

Finish(tr) == [tr |-> tr, task |-> Idle, fetch |-> FALSE, done |-> TRUE]

Amount(side, size) == IF side = "long" THEN size ELSE -size

\* the call of orderManager.placeLimitOrder, up to its await on the venue
IssueLimit(tr, task, lvl, loaded) ==
  [tr |-> tr,
   task |-> [task EXCEPT !.pc = "placeLimit", !.lvl = lvl,
                         !.submitted = normalizePrice(loaded, lvl.productId, lvl.price)],
   fetch |-> TRUE, done |-> FALSE]

\* placeInitialOrders: the levels skipped by the two guards at the loop head
RECURSIVE SkipLevels(_, _, _)
SkipLevels(tr, prices, todo) ==
  IF todo = <<>> THEN <<>>
  ELSE IF hasActivePosition(tr, Head(todo).productId, Head(todo).side, Head(todo).price)
    THEN SkipLevels(tr, prices, Tail(todo))
  ELSE IF prices[Head(todo).productId] = 0
    THEN SkipLevels(tr, prices, Tail(todo))
  ELSE todo

\* placeInitialOrders from the head of todo up to the next placeLimitOrder
placeInitialOrders(tr, task, todo, prices, loaded) ==
  LET rest == SkipLevels(tr, prices, todo)
  IN IF rest = <<>> THEN Finish(tr)
     ELSE IssueLimit(tr, [task EXCEPT !.todo = rest, !.cands = <<>>], Head(rest), loaded)

\* cancelAndReplaceOrders, second loop: TP and SL of the filled snapshot, then
\* cleanup and placeInitialOrders over lv, the value of this.levels
RECURSIVE CancelFilled(_, _, _, _, _, _)
CancelFilled(tr, task, cands, lv, prices, loaded) ==
  IF cands = <<>>
    THEN placeInitialOrders(cleanup(tr), task, lv, prices, loaded)
  ELSE IF tr.objs[Head(cands)].tpOrderDigest # NoDigest
    THEN Suspend(tr, [task EXCEPT !.pc = "cancelTp", !.cands = cands])
  ELSE IF tr.objs[Head(cands)].slOrderDigest # NoDigest
    THEN Suspend(tr, [task EXCEPT !.pc = "cancelSl", !.cands = cands])
  ELSE CancelFilled(tr, task, Tail(cands), lv, prices, loaded)

FilledSnapshot(tr) ==
  LET IsFilled(r) == tr.objs[r].status = "filled"
  IN SelectSeq(getActivePositions(tr), IsFilled)

\* a snapshot of the first pending position only
PendingSnapshotFirst(tr) ==
  LET IsPending(r) == tr.objs[r].status = "pending"
      pending == SelectSeq(getActivePositions(tr), IsPending)
  IN IF pending = <<>> THEN <<>> ELSE <<Head(pending)>>

PendingSnapshot(tr) ==
  LET IsPending(r) == tr.objs[r].status = "pending"
  IN SelectSeq(getActivePositions(tr), IsPending)

\* cancelAndReplaceOrders, first loop: the entries of the pending snapshot
\* (the head of cands is the entry whose cancelOrder is awaited)
CancelPending(tr, task, cands, lv, prices, loaded) ==
  IF cands # <<>>
    THEN Suspend(tr, [task EXCEPT !.pc = "cancelPending", !.cands = cands])
    ELSE CancelFilled(tr, task, FilledSnapshot(tr), lv, prices, loaded)

\* the loop of stop over its snapshot; phase is the place in the loop body:
\* "entry" at its head, "filled" after the entry cancel, "sl" after the TP cancel
RECURSIVE StopLoop(_, _, _, _)
StopLoop(tr, task, cands, phase) ==
  IF cands = <<>> THEN Finish(tr)
  ELSE LET pos == tr.objs[Head(cands)]
       IN IF phase = "entry"
            THEN IF pos.status = "pending" /\ pos.entryOrderDigest # NoDigest
                   THEN Suspend(tr, [task EXCEPT !.pc = "stopEntry", !.cands = cands,
                                                      !.tried = @ \cup {pos.entryOrderDigest}])
                   ELSE StopLoop(tr, task, cands, "filled")
          ELSE IF phase = "filled"
            THEN IF pos.status # "filled"
                   THEN StopLoop(tr, task, Tail(cands), "entry")
                 ELSE IF pos.tpOrderDigest # NoDigest
                   THEN Suspend(tr, [task EXCEPT !.pc = "stopTp", !.cands = cands,
                                                      !.tried = @ \cup {pos.tpOrderDigest}])
                 ELSE StopLoop(tr, task, cands, "sl")
          ELSE IF pos.slOrderDigest # NoDigest
                 THEN Suspend(tr, [task EXCEPT !.pc = "stopSl", !.cands = cands,
                                                      !.tried = @ \cup {pos.slOrderDigest}])
                 ELSE StopLoop(tr, task, Tail(cands), "entry")

\* re-arming whatever the price is
rearmLevelAnyPrice(tr, task, prices, loaded) ==
  LET pos == tr.objs[task.pos]
  IN IssueLimit(cleanup(tr), [task EXCEPT !.pos = NoDigest, !.paired = NoDigest],
                [productId |-> pos.productId, price |-> pos.level,
                 side |-> pos.side, size |-> pos.size], loaded)

\* rearmLevel up to its placeLimitOrder; task.pos is the exited position
rearmLevel(tr, task, prices, loaded) ==
  LET pos == tr.objs[task.pos]
      currentPrice == prices[pos.productId]
  IN IF currentPrice = 0 THEN Finish(cleanup(tr))
     ELSE IF pos.side = "long" /\ pos.level >= currentPrice THEN Finish(cleanup(tr))
     ELSE IF pos.side = "short" /\ pos.level <= currentPrice THEN Finish(cleanup(tr))
     ELSE IssueLimit(cleanup(tr), [task EXCEPT !.pos = NoDigest, !.paired = NoDigest],
                     [productId |-> pos.productId, price |-> pos.level,
                      side |-> pos.side, size |-> pos.size], loaded)

\* cancelOppositePendingEntries: the candidates, in Map order
OppositeCandidates(tr, productId, filledSide, filledEntryDigest) ==
  LET oppositeSide == IF filledSide = "long" THEN "short" ELSE "long"
      IsCandidate(r) == /\ tr.objs[r].productId = productId
                        /\ tr.objs[r].status = "pending"
                        /\ tr.objs[r].side = oppositeSide
                        /\ tr.objs[r].entryOrderDigest # NoDigest
                        /\ tr.objs[r].entryOrderDigest # filledEntryDigest
  IN SelectSeq(getActivePositions(tr), IsCandidate)

\* onFill from the call of cancelOppositePendingEntries up to the next await:
\* the cancel of the next candidate, or the TP/SL pair once none is left
CancelOpposite(tr, task, cands) ==
  IF cands # <<>>
    THEN Suspend(tr, [task EXCEPT !.pc = "cancelOpp", !.cands = cands])
    ELSE [tr |-> tr, task |-> [task EXCEPT !.pc = "tpsl", !.cands = <<>>, !.pos = NoDigest],
          fetch |-> TRUE, done |-> FALSE]

\* committing when either leg was placed
BothPlacedEither(tpSuccess, slSuccess) == tpSuccess \/ slSuccess

\* the TP/SL pair is committed only when both legs were placed
BothPlaced(tpSuccess, slSuccess) == tpSuccess /\ slSuccess

\* the objects and the digests a suspended activation still holds
TaskRefs(task) == ({task.pos} \cup Range(task.cands)) \ {NoDigest}

TaskDigests(task) == (TaskRefs(task) \cup {task.digest, task.paired}) \ {NoDigest}

\* the digests the program still remembers
KnownDigests ==
  DOMAIN digestToPositionId \cup DOMAIN objs
  \cup UNION {HeldDigests(objs[r]) : r \in DOMAIN objs}
  \cup UNION {TaskDigests(task) : task \in Running}

\* the digest of the next order of a kind the venue accepts: one that nobody
\* remembers; the venue accepts no order while MaxNonce digests of its kind
\* are remembered
FreshNonces(productId, side, kind) ==
  {n \in 1..MaxNonce :
     [productId |-> productId, side |-> side, kind |-> kind, nonce |-> n] \notin KnownDigests}

orderDigest(productId, side, kind) ==
  LET fresh == FreshNonces(productId, side, kind)
  IN IF fresh = {} THEN NoDigest
     ELSE [productId |-> productId, side |-> side, kind |-> kind,
           nonce |-> CHOOSE n \in fresh : \A m \in fresh : n <= m]

\* the state a segment leaves behind: activation task (Idle for a handler that
\* was just invoked) becomes out.task; objects that are neither in the registry
\* nor held by an activation are garbage
Apply(task, out, loaded) ==
  /\ tasks' = (tasks (-) (IF task = Idle THEN EmptyBag ELSE SetToBag({task})))
              (+) (IF out.task = Idle THEN EmptyBag ELSE SetToBag({out.task}))
  /\ positions' = out.tr.positions
  /\ digestToPositionId' = out.tr.idx
  /\ objs' = [r \in (DOMAIN out.tr.objs) \cap
                    (Range(out.tr.positions) \cup
                     UNION {TaskRefs(u) : u \in BagToSet(tasks')}) |-> out.tr.objs[r]]
  /\ priceIncrementLoaded' = IF out.fetch THEN loaded ELSE priceIncrementLoaded

\* the engine, its tracker and its gateway after construction
InitEngine ==
  /\ objs = <<>>
  /\ positions = <<>>
  /\ digestToPositionId = <<>>
  /\ levels = <<>>
  /\ isRunning = FALSE
  /\ latestPrices = [p \in Products |-> 0]
  /\ levelRefreshInterval = FALSE
  /\ timers = 0
  /\ priceIncrementLoaded = FALSE
  /\ starts = 0
  /\ ticks = 0
  /\ exited = FALSE
  /\ tasks = EmptyBag
  /\ marketsUp \in MarketsAnswers

\* no pure computation is under study
NoCalc == [done |-> FALSE]

InitCalc ==
  /\ pivotCalc = NoCalc
  /\ exitCalc = NoCalc

Init ==
  /\ InitEngine
  /\ InitStream
  /\ InitGateway
  /\ InitCalc

NoQuote == <<>>
Mid(q) == (q[1] + q[2]) \div 2

\* ensurePriceIncrementsLoaded as the next order placement leaves the map
Loaded == ensurePriceIncrementsLoaded(priceIncrementLoaded, marketsUp)

\* start, at its end: setInterval
SetInterval(out, kind) ==
  IF out.done /\ kind = "start"
    THEN levelRefreshInterval' = TRUE /\ timers' = timers + 1
    ELSE UNCHANGED <<levelRefreshInterval, timers>>

\* the 'connected' listener of main: sleep, then start up to the await in
\* refreshLevels
ConnectedUpTo(limit) ==
  /\ ~exited
  /\ starts < limit
  /\ HasRoom
  /\ starts' = starts + 1
  /\ ticks' = ticks
  /\ tasks' = tasks (+) SetToBag({[Idle EXCEPT !.kind = "start", !.pc = "refreshLevels"]})
  /\ UNCHANGED <<objs, positions, digestToPositionId, levels, isRunning, latestPrices,
                 levelRefreshInterval, timers, priceIncrementLoaded, exited, marketsUp>>

Connected == ConnectedUpTo(MaxStarts)

ProductIdsOf(lv) ==
  LET HasLevel(p) == \E i \in DOMAIN lv : lv[i].productId = p
  IN SelectSeq(ProductSeq, HasLevel)

\* start: refreshLevels resolved; isRunning is set and the price fetches begin
StartLevelsDone(task, cds) ==
  /\ ~exited
  /\ At(task, "start", "refreshLevels")
  /\ LET lv == buildDynamicTradingLevels(cds)
         productIds == ProductIdsOf(lv)
         out == IF productIds # <<>>
                  THEN Suspend(Tr, [task EXCEPT !.pc = "getPrice", !.prods = productIds])
                  ELSE placeInitialOrders(Tr, task, lv, latestPrices, Loaded)
     IN /\ levels' = lv
        /\ isRunning' = TRUE
        /\ Apply(task, out, Loaded)
        /\ SetInterval(out, "start")
  /\ UNCHANGED <<latestPrices, starts, ticks, exited, marketsUp>>

\* start: one getMarketPrice resolved with quote q, or with null
StartPriceDone(task, q) ==
  /\ ~exited
  /\ At(task, "start", "getPrice")
  /\ LET productId == Head(task.prods)
         rest == Tail(task.prods)
         prices == IF q # NoQuote THEN [latestPrices EXCEPT ![productId] = Mid(q)]
                   ELSE latestPrices
         out == IF rest # <<>>
                  THEN Suspend(Tr, [task EXCEPT !.prods = rest])
                  ELSE placeInitialOrders(Tr, [task EXCEPT !.prods = <<>>], levels,
                                          prices, Loaded)
     IN /\ latestPrices' = prices
        /\ Apply(task, out, Loaded)
        /\ SetInterval(out, "start")
  /\ UNCHANGED <<levels, isRunning, starts, ticks, exited, marketsUp>>

\* placeLimitOrder resolved (placeInitialOrders or rearmLevel): createPosition
\* on success; the placement loop then sleeps
PlaceLimitDone(task, ok) ==
  /\ ~exited
  /\ task \in Running
  /\ task.pc = "placeLimit"
  /\ LET digest == orderDigest(task.lvl.productId, task.lvl.side, "entry")
         success == ok /\ digest # NoDigest
         tr2 == IF success
                  THEN createPosition(Tr, task.lvl.productId, task.submitted,
                                      task.lvl.side, task.lvl.size, digest)
                  ELSE Tr
         out == IF task.kind = "onOrderUpdate" THEN Finish(tr2)
                ELSE Suspend(tr2, [task EXCEPT !.pc = "sleep", !.lvl = <<>>,
                                               !.submitted = 0])
     IN Apply(task, out, priceIncrementLoaded)
  /\ UNCHANGED <<levels, isRunning, latestPrices, levelRefreshInterval, timers,
                 starts, ticks, exited, marketsUp>>

\* placeInitialOrders: the sleep after a level elapsed; on to the next level
SleepDone(task) ==
  /\ ~exited
  /\ task \in Running
  /\ task.pc = "sleep"
  /\ LET out == placeInitialOrders(Tr, task, Tail(task.todo), latestPrices, Loaded)
     IN /\ Apply(task, out, Loaded)
        /\ SetInterval(out, task.kind)
  /\ UNCHANGED <<levels, isRunning, latestPrices, starts, ticks, exited, marketsUp>>

\* the setInterval callback of start, up to the await in refreshLevels
RefreshTick ==
  /\ ~exited
  /\ timers > 0
  /\ ticks < MaxTicks
  /\ ticks' = ticks + 1
  /\ HasRoom
  /\ isRunning
  /\ tasks' = tasks (+) SetToBag({[Idle EXCEPT !.kind = "refresh", !.pc = "refreshLevels"]})
  /\ UNCHANGED <<objs, positions, digestToPositionId, levels, isRunning, latestPrices,
                 levelRefreshInterval, timers, priceIncrementLoaded, starts, exited,
                 marketsUp>>

\* refresh cycle: refreshLevels resolved; cancelAndReplaceOrders begins
RefreshLevelsDone(task, cds) ==
  /\ ~exited
  /\ At(task, "refresh", "refreshLevels")
  /\ LET lv == buildDynamicTradingLevels(cds)
     IN /\ levels' = lv
        /\ Apply(task, CancelPending(Tr, task, PendingSnapshot(Tr), lv, latestPrices,
                                     Loaded), Loaded)
  /\ UNCHANGED <<isRunning, latestPrices, levelRefreshInterval, timers, starts, ticks, exited,
                 marketsUp>>

\* refresh cycle: the cancel of a pending entry resolved; its result ok is not
\* looked at
CancelPendingDone(task, ok) ==
  /\ ~exited
  /\ At(task, "refresh", "cancelPending")
  /\ Apply(task, CancelPending(Tr, task, Tail(task.cands), levels, latestPrices, Loaded),
           Loaded)
  /\ UNCHANGED <<levels, isRunning, latestPrices, levelRefreshInterval, timers,
                 starts, ticks, exited, marketsUp>>

\* refresh cycle: the cancel of a TP resolved (result ok not looked at); the SL
\* of the same position next
CancelTpDone(task, ok) ==
  /\ ~exited
  /\ At(task, "refresh", "cancelTp")
  /\ LET out == IF objs[Head(task.cands)].slOrderDigest # NoDigest
                  THEN Suspend(Tr, [task EXCEPT !.pc = "cancelSl"])
                  ELSE CancelFilled(Tr, task, Tail(task.cands), levels, latestPrices, Loaded)
     IN Apply(task, out, Loaded)
  /\ UNCHANGED <<levels, isRunning, latestPrices, levelRefreshInterval, timers,
                 starts, ticks, exited, marketsUp>>

\* refresh cycle: the cancel of an SL resolved (result ok not looked at)
CancelSlDone(task, ok) ==
  /\ ~exited
  /\ At(task, "refresh", "cancelSl")
  /\ Apply(task, CancelFilled(Tr, task, Tail(task.cands), levels, latestPrices, Loaded),
           Loaded)
  /\ UNCHANGED <<levels, isRunning, latestPrices, levelRefreshInterval, timers,
                 starts, ticks, exited, marketsUp>>

\* shutdown of main after stop returned: disconnect and process.exit, which
\* ends every activation and discards the program's memory
Exit ==
  /\ exited' = TRUE
  /\ objs' = <<>>
  /\ positions' = <<>>
  /\ digestToPositionId' = <<>>
  /\ tasks' = EmptyBag
  /\ levels' = <<>>
  /\ latestPrices' = [p \in Products |-> 0]
  /\ priceIncrementLoaded' = FALSE
  /\ isRunning' = FALSE
  /\ levelRefreshInterval' = FALSE
  /\ timers' = 0
  /\ UNCHANGED <<starts, ticks, marketsUp>>

\* SIGINT/SIGTERM: stop up to its first gateway cancel (a second signal during
\* the shutdown is not modelled)
Stop ==
  /\ ~exited
  /\ HasRoom
  /\ \A u \in Running : u.kind # "stop"
  /\ LET out == StopLoop(Tr, [Idle EXCEPT !.kind = "stop"], getActivePositions(Tr), "entry")
     IN IF out.done THEN Exit
        ELSE /\ isRunning' = FALSE
             /\ levelRefreshInterval' = FALSE
             /\ timers' = IF levelRefreshInterval THEN timers - 1 ELSE timers
             /\ Apply(Idle, out, priceIncrementLoaded)
             /\ UNCHANGED <<levels, latestPrices, starts, ticks, exited, marketsUp>>

\* stop: a cancel resolved; phase is where the loop body continues
StopCancelDone(task, pc, phase) ==
  /\ ~exited
  /\ At(task, "stop", pc)
  /\ LET cands == IF pc = "stopSl" THEN Tail(task.cands) ELSE task.cands
         out == StopLoop(Tr, task, cands, phase)
     IN IF out.done THEN Exit
        ELSE /\ Apply(task, out, priceIncrementLoaded)
             /\ UNCHANGED <<levels, isRunning, latestPrices, levelRefreshInterval, timers,
                            starts, ticks, exited, marketsUp>>

StopEntryDone(task) == StopCancelDone(task, "stopEntry", "filled")
StopTpDone(task) == StopCancelDone(task, "stopTp", "sl")
StopSlDone(task) == StopCancelDone(task, "stopSl", "entry")

\* onBestBidOffer
OnBestBidOffer(productId, q) ==
  /\ ~exited
  /\ LET bid == normalizeStreamPrice([m |-> q[1], e |-> 0])
         ask == normalizeStreamPrice([m |-> q[2], e |-> 0])
     IN latestPrices' = [latestPrices EXCEPT ![productId] = (bid + ask) \div 2]
  /\ UNCHANGED <<objs, positions, digestToPositionId, levels, isRunning,
                 levelRefreshInterval, timers, priceIncrementLoaded, starts, ticks, exited,
                 tasks, marketsUp>>

\* onFill up to its first await
OnFill(digest, price) ==
  /\ ~exited
  /\ HasRoom
  /\ LET position == getByEntryDigest(Tr, digest)
     IN IF position = NoDigest THEN Apply(Idle, Finish(Tr), Loaded)
        ELSE IF objs[position].status # "pending" THEN Apply(Idle, Finish(Tr), Loaded)
        ELSE Apply(Idle, CancelOpposite(Tr,
                           [Idle EXCEPT !.kind = "onFill", !.digest = digest,
                                        !.fillPrice = normalizeStreamPrice(price),
                                        !.pos = position,
                                        !.lvl = [productId |-> objs[position].productId,
                                                 side |-> objs[position].side,
                                                 size |-> objs[position].size,
                                                 price |-> objs[position].level]],
                           OppositeCandidates(Tr, objs[position].productId,
                                              objs[position].side, digest)), Loaded)
  /\ UNCHANGED <<levels, isRunning, latestPrices, levelRefreshInterval, timers,
                 starts, ticks, exited, marketsUp>>

\* cancelOppositePendingEntries: one cancelOrder resolved
FillCancelOppDone(task, cancelled) ==
  /\ ~exited
  /\ At(task, "onFill", "cancelOpp")
  /\ LET entry == objs[Head(task.cands)].entryOrderDigest
         tr2 == IF cancelled THEN markCancelled(Tr, entry) ELSE Tr
     IN Apply(task, CancelOpposite(tr2, task, Tail(task.cands)), Loaded)
  /\ UNCHANGED <<levels, isRunning, latestPrices, levelRefreshInterval, timers,
                 starts, ticks, exited, marketsUp>>

\* onFill: both placements of the Promise.all resolved
FillTpSlDone(task, tpOk, slOk) ==
  /\ ~exited
  /\ At(task, "onFill", "tpsl")
  /\ LET tpDigest == IF tpOk THEN orderDigest(task.lvl.productId, task.lvl.side, "tp")
                     ELSE NoDigest
         slDigest == IF slOk THEN orderDigest(task.lvl.productId, task.lvl.side, "sl")
                     ELSE NoDigest
         tpSuccess == tpDigest # NoDigest
         slSuccess == slDigest # NoDigest
         out == IF BothPlaced(tpSuccess, slSuccess)
                  THEN Finish(markFilled(Tr, task.digest, task.fillPrice, tpDigest, slDigest))
                  ELSE Finish(Tr)
     IN Apply(task, out, priceIncrementLoaded)
  /\ UNCHANGED <<levels, isRunning, latestPrices, levelRefreshInterval, timers,
                 starts, ticks, exited, marketsUp>>

\* onOrderUpdate up to its first await
OnOrderUpdate(digest, reason) ==
  /\ ~exited
  /\ HasRoom
  /\ LET position == getByDigest(Tr, digest)
         isTp == digest = objs[position].tpOrderDigest
         isSl == digest = objs[position].slOrderDigest
         exitType == IF isTp THEN "tp_hit" ELSE "sl_hit"
         pairedDigest == markExitPaired(Tr, digest, exitType)
         exitResult == markExit(Tr, digest, exitType)
         task == [Idle EXCEPT !.kind = "onOrderUpdate", !.pos = position,
                              !.paired = pairedDigest]
     IN IF position = NoDigest THEN Apply(Idle, Finish(Tr), Loaded)
        ELSE IF reason = "filled" /\ (isTp \/ isSl)
          THEN IF pairedDigest # NoDigest
                 THEN Apply(Idle, Suspend(exitResult, [task EXCEPT !.pc = "cancelPaired"]),
                            Loaded)
               ELSE IF isRunning
                 THEN Apply(Idle, rearmLevel(exitResult, task, latestPrices, Loaded), Loaded)
               ELSE Apply(Idle, Finish(exitResult), Loaded)
        ELSE IF /\ reason = "cancelled"
                /\ digest = objs[position].entryOrderDigest
                /\ objs[position].status = "pending"
          THEN Apply(Idle, Finish(markCancelled(Tr, digest)), Loaded)
        ELSE Apply(Idle, Finish(Tr), Loaded)
  /\ UNCHANGED <<levels, isRunning, latestPrices, levelRefreshInterval, timers,
                 starts, ticks, exited, marketsUp>>

\* a handler that re-arms whether or not the engine is running
CancelPairedDoneAlways(task) ==
  /\ ~exited
  /\ At(task, "onOrderUpdate", "cancelPaired")
  /\ Apply(task, rearmLevel(Tr, task, latestPrices, Loaded), Loaded)
  /\ UNCHANGED <<levels, isRunning, latestPrices, levelRefreshInterval, timers,
                 starts, ticks, exited, marketsUp>>

\* onOrderUpdate: the cancel of the paired trigger order resolved; re-arm
CancelPairedDone(task) ==
  /\ ~exited
  /\ At(task, "onOrderUpdate", "cancelPaired")
  /\ IF isRunning
       THEN Apply(task, rearmLevel(Tr, task, latestPrices, Loaded), Loaded)
       ELSE Apply(task, Finish(Tr), Loaded)
  /\ UNCHANGED <<levels, isRunning, latestPrices, levelRefreshInterval, timers,
                 starts, ticks, exited, marketsUp>>

CandleChoices == [Products -> Candles \cup {NoCandle}]

\* the digests stream events carry: every indexed digest, and one that the
\* index does not hold (all of those are handled alike)
EventDigests ==
  LET unknown == Digests \ DOMAIN digestToPositionId
  IN DOMAIN digestToPositionId \cup
     (IF unknown = {} THEN {} ELSE {CHOOSE d \in unknown : TRUE})

Next ==
  \/ Connected /\ UNCHANGED <<streamVars, gatewayVars, calcVars>>
  \/ \E task \in Running, cds \in CandleChoices : StartLevelsDone(task, cds) /\ UNCHANGED <<streamVars, gatewayVars, calcVars>>
  \/ \E task \in Running, q \in Quotes \cup {NoQuote} : StartPriceDone(task, q) /\ UNCHANGED <<streamVars, gatewayVars, calcVars>>
  \/ \E task \in Running, ok \in BOOLEAN : PlaceLimitDone(task, ok) /\ UNCHANGED <<streamVars, gatewayVars, calcVars>>
  \/ \E task \in Running : SleepDone(task) /\ UNCHANGED <<streamVars, gatewayVars, calcVars>>
  \/ RefreshTick /\ UNCHANGED <<streamVars, gatewayVars, calcVars>>
  \/ \E task \in Running, cds \in CandleChoices : RefreshLevelsDone(task, cds) /\ UNCHANGED <<streamVars, gatewayVars, calcVars>>
  \/ \E task \in Running, ok \in BOOLEAN : CancelPendingDone(task, ok) /\ UNCHANGED <<streamVars, gatewayVars, calcVars>>
  \/ \E task \in Running, ok \in BOOLEAN : CancelTpDone(task, ok) /\ UNCHANGED <<streamVars, gatewayVars, calcVars>>
  \/ \E task \in Running, ok \in BOOLEAN : CancelSlDone(task, ok) /\ UNCHANGED <<streamVars, gatewayVars, calcVars>>
  \/ Stop /\ UNCHANGED <<streamVars, gatewayVars, calcVars>>
  \/ \E task \in Running : StopEntryDone(task) /\ UNCHANGED <<streamVars, gatewayVars, calcVars>>
  \/ \E task \in Running : StopTpDone(task) /\ UNCHANGED <<streamVars, gatewayVars, calcVars>>
  \/ \E task \in Running : StopSlDone(task) /\ UNCHANGED <<streamVars, gatewayVars, calcVars>>
  \/ \E p \in Products, q \in Quotes : OnBestBidOffer(p, q) /\ UNCHANGED <<streamVars, gatewayVars, calcVars>>
  \/ \E d \in EventDigests, sp \in StreamPrices : d.side \in FilledSides /\ OnFill(d, sp) /\ UNCHANGED <<streamVars, gatewayVars, calcVars>>
  \/ \E task \in Running, c \in BOOLEAN : FillCancelOppDone(task, c) /\ UNCHANGED <<streamVars, gatewayVars, calcVars>>
  \/ \E task \in Running, tpOk \in BOOLEAN, slOk \in BOOLEAN : FillTpSlDone(task, tpOk, slOk) /\ UNCHANGED <<streamVars, gatewayVars, calcVars>>
  \/ \E d \in EventDigests, r \in Reasons : OnOrderUpdate(d, r) /\ UNCHANGED <<streamVars, gatewayVars, calcVars>>
  \/ \E task \in Running : CancelPairedDone(task) /\ UNCHANGED <<streamVars, gatewayVars, calcVars>>

Spec == Init /\ [][Next]_vars

\* ------------------------------------------------------------ properties
Registry == Range(positions)

Slot(r) == <<objs[r].productId, objs[r].side, objs[r].level>>

\* the registry and the index are as before, and so is every registered object
TrackerSame ==
  /\ positions' = positions
  /\ digestToPositionId' = digestToPositionId
  /\ \A r \in Registry : objs'[r] = objs[r]

\* C1: in every reachable state at most one record that is pending or filled
\* is registered for a (product, side, level)
C1_OneActivePerSlot ==
  \A i, j \in DOMAIN positions :
    (/\ i # j
     /\ objs[positions[i]].status \in Active
     /\ objs[positions[j]].status \in Active)
    => Slot(positions[i]) # Slot(positions[j])

\* an active record sits in a slot for which an earlier entry order is still
\* indexed: createPosition ran a second time for the slot
C1_Witness ==
  \E d \in DOMAIN digestToPositionId :
    LET r == PositionsGet(Tr, digestToPositionId[d])
    IN /\ r # NoDigest
       /\ objs[r].status \in Active
       /\ d.kind = "entry"
       /\ d # objs[r].entryOrderDigest

\* C2: createPosition takes effect only when the slot holds no active record:
\* a registered record that is pending or filled is never replaced, by the
\* startup placement or by a re-arm
C2_ActiveNeverReplaced ==
  [][~exited' => \A r \in Registry : objs[r].status \in Active => r \in Range(positions')]_vars

\* C3: a record's status changes only along pending -> filled,
\* pending -> cancelled, filled -> tp_hit and filled -> sl_hit; tp_hit, sl_hit
\* and cancelled never change
AllowedTransitions ==
  {<<"pending", "filled">>, <<"pending", "cancelled">>,
   <<"filled", "tp_hit">>, <<"filled", "sl_hit">>}

C3_StatusLifecycle ==
  [][\A r \in DOMAIN objs \cap DOMAIN objs' :
       \/ objs'[r].status = objs[r].status
       \/ <<objs[r].status, objs'[r].status>> \in AllowedTransitions]_vars

\* C4: the fill handler calls markFilled only when both the TP and the SL
\* placement succeeded; when either failed the tracker is left as it was
C4_FilledOnlyWithBothLegs ==
  [][\A task \in Running, tpOk \in BOOLEAN, slOk \in BOOLEAN :
       (~(tpOk /\ slOk) /\ FillTpSlDone(task, tpOk, slOk)) => TrackerSame]_vars

\* a fill handler waits for its two placements while its entry is pending
C4_Witness ==
  \E task \in Running :
    /\ At(task, "onFill", "tpsl")
    /\ getByEntryDigest(Tr, task.digest) # NoDigest
    /\ objs[getByEntryDigest(Tr, task.digest)].status = "pending"

\* C5: fillPrice is set once, at pending -> filled, and never changes
\* afterwards, also under repeated or overlapping fill events
C5_FillPriceSetOnce ==
  [][\A r \in DOMAIN objs \cap DOMAIN objs' :
       /\ objs[r].fillPrice # NoPrice => objs'[r].fillPrice = objs[r].fillPrice
       /\ objs'[r].fillPrice # objs[r].fillPrice => objs'[r].status = "filled"]_vars

\* C6: once a position has exited, a later filled order-update for its TP or
\* SL reference records no second exit, changes no exit kind and starts no
\* second paired cancel or re-arm
C6_ExitOnce ==
  [][\A d \in EventDigests :
       LET r == getByDigest(Tr, d)
       IN (/\ r # NoDigest
           /\ objs[r].status \in {"tp_hit", "sl_hit"}
           /\ d \in {objs[r].tpOrderDigest, objs[r].slOrderDigest}
           /\ OnOrderUpdate(d, "filled"))
          => TrackerSame /\ tasks' = tasks]_vars

\* C7: markExit on a filled position hands back the other reference of the
\* TP/SL pair: never the one that triggered, never null
C7_PairedIsOtherLeg ==
  [][\A d \in EventDigests :
       LET r == getByDigest(Tr, d)
           isTp == d = objs[r].tpOrderDigest
           other == IF isTp THEN objs[r].slOrderDigest ELSE objs[r].tpOrderDigest
           exitType == IF isTp THEN "tp_hit" ELSE "sl_hit"
       IN (/\ r # NoDigest
           /\ objs[r].status = "filled"
           /\ d \in {objs[r].tpOrderDigest, objs[r].slOrderDigest}
           /\ OnOrderUpdate(d, "filled"))
          => /\ markExitPaired(Tr, d, exitType) = other
             /\ other \notin {NoDigest, d}
             /\ \E task \in BagToSet(tasks') :
                  /\ task.kind = "onOrderUpdate"
                  /\ task.pc = "cancelPaired"
                  /\ task.paired = other]_vars

\* an exit was marked and the cancel of the paired order is in flight
C7_Witness ==
  \E task \in Running :
    /\ At(task, "onOrderUpdate", "cancelPaired")
    /\ task.paired # NoDigest
    /\ task.pos \in Registry
    /\ objs[task.pos].status \in {"tp_hit", "sl_hit"}
    /\ task.paired \in {objs[task.pos].tpOrderDigest, objs[task.pos].slOrderDigest}

\* C8: markFilled with an entry reference the index does not hold returns
\* null and leaves the registry and the index as they were
C8_UnknownEntryIgnored ==
  [][\A task \in Running, tpOk \in BOOLEAN, slOk \in BOOLEAN :
       (/\ At(task, "onFill", "tpsl")
        /\ task.digest \notin DOMAIN digestToPositionId
        /\ FillTpSlDone(task, tpOk, slOk))
       => /\ markFilledReturn(Tr, task.digest) = NoDigest
          /\ TrackerSame]_vars

\* a fill handler is about to call markFilled for an entry whose record was
\* purged while the handler waited
C8_Witness ==
  \E task \in Running :
    /\ At(task, "onFill", "tpsl")
    /\ task.digest \notin DOMAIN digestToPositionId
    /\ orderDigest(task.lvl.productId, task.lvl.side, "tp") # NoDigest
    /\ orderDigest(task.lvl.productId, task.lvl.side, "sl") # NoDigest

\* C9: the index and the registry move in lockstep: every index entry maps to
\* a registered position that holds the reference, and every reference a
\* registered position holds is indexed under that position
C9_IndexLockstep ==
  /\ \A d \in DOMAIN digestToPositionId :
       LET r == PositionsGet(Tr, digestToPositionId[d])
       IN r # NoDigest /\ d \in HeldDigests(objs[r])
  /\ \A r \in Registry : \A d \in HeldDigests(objs[r]) :
       d \in DOMAIN digestToPositionId /\ digestToPositionId[d] = objs[r].id

\* C10: cleanup removes exactly the records that are tp_hit, sl_hit or
\* cancelled, with their index entries, and leaves pending and filled records
\* and their index entries untouched
SweepPcs == {"refreshLevels", "cancelPending", "cancelTp", "cancelSl"}

\* the refresh cycles that have not yet reached their cleanup
SweepCount(b) ==
  LET sweeping == {u \in BagToSet(b) : u.kind = "refresh" /\ u.pc \in SweepPcs}
  IN BagCardinality([u \in sweeping |-> CopiesIn(u, b)])

\* the steps in which cleanup runs: the re-arm of an exit handler and the end
\* of a refresh cycle's cancel sweep
CleanupRuns ==
  \/ \E task \in Running : isRunning /\ CancelPairedDone(task)
  \/ ~exited' /\ SweepCount(tasks') < SweepCount(tasks)

C10_CleanupFrame ==
  [][CleanupRuns =>
       LET IsActive(r) == objs[r].status \in Active
           dead == UNION {HeldDigests(objs[r]) : r \in {q \in Registry : ~IsActive(q)}}
       IN /\ positions' = SelectSeq(positions, IsActive)
          /\ \A r \in Range(positions') : objs'[r] = objs[r]
          /\ DOMAIN digestToPositionId' = DOMAIN digestToPositionId \ dead
          /\ \A d \in DOMAIN digestToPositionId' :
               digestToPositionId'[d] = digestToPositionId[d]]_vars

\* a re-arm has purged the exited record and issued its order while another
\* record is still active
C10_Witness ==
  /\ \E task \in Running : task.kind = "onOrderUpdate" /\ task.pc = "placeLimit"
  /\ \E r \in Registry : objs[r].status \in Active
  /\ \A r \in Registry : objs[r].status \in Active

\* C11: when the pass of the fill handler over a pending entry ends (both
\* placements of its TP/SL pair have resolved), the registry holds no pending
\* record on the opposite side of the same product
OppositeOf(side) == IF side = "long" THEN "short" ELSE "long"

C11_OppositeCancelledByEndOfPass ==
  [][\A task \in Running, tpOk \in BOOLEAN, slOk \in BOOLEAN :
       FillTpSlDone(task, tpOk, slOk) =>
         \A r \in Range(positions') :
           ~(/\ objs'[r].productId = task.lvl.productId
             /\ objs'[r].side = OppositeOf(task.lvl.side)
             /\ objs'[r].status = "pending")]_vars

\* ------------------------------------------------------------ re-arming
\* best bid/offer pairs above and at the entry levels
RearmQuotes == {<<13, 15>>, <<7, 9>>}

\* the engine between start and shutdown, with fills on both sides and the
\* stream's price moving across the levels; the stream reports one fill at a
\* time (none while a fill is being handled)
NextRearm ==
  \/ Connected /\ UNCHANGED <<streamVars, gatewayVars, calcVars>>
  \/ \E task \in Running, cds \in CandleChoices : StartLevelsDone(task, cds) /\ UNCHANGED <<streamVars, gatewayVars, calcVars>>
  \/ \E task \in Running, q \in RearmQuotes \cup {NoQuote} : StartPriceDone(task, q) /\ UNCHANGED <<streamVars, gatewayVars, calcVars>>
  \/ \E task \in Running, ok \in BOOLEAN : PlaceLimitDone(task, ok) /\ UNCHANGED <<streamVars, gatewayVars, calcVars>>
  \/ \E task \in Running : SleepDone(task) /\ UNCHANGED <<streamVars, gatewayVars, calcVars>>
  \/ \E p \in Products, q \in RearmQuotes : OnBestBidOffer(p, q) /\ UNCHANGED <<streamVars, gatewayVars, calcVars>>
  \/ \E d \in EventDigests :
       (\A u \in Running : u.kind # "onFill") /\ OnFill(d, [m |-> 9, e |-> 0]) /\ UNCHANGED <<streamVars, gatewayVars, calcVars>>
  \/ \E task \in Running, c \in BOOLEAN : FillCancelOppDone(task, c) /\ UNCHANGED <<streamVars, gatewayVars, calcVars>>
  \/ \E task \in Running, tpOk \in BOOLEAN, slOk \in BOOLEAN : FillTpSlDone(task, tpOk, slOk) /\ UNCHANGED <<streamVars, gatewayVars, calcVars>>
  \/ \E d \in EventDigests, r \in Reasons : OnOrderUpdate(d, r) /\ UNCHANGED <<streamVars, gatewayVars, calcVars>>
  \/ \E task \in Running : CancelPairedDone(task) /\ UNCHANGED <<streamVars, gatewayVars, calcVars>>

\* the tick metadata is available
InitRearm == Init /\ marketsUp

SpecRearm == InitRearm /\ [][NextRearm]_vars

\* an activation of onOrderUpdate that issued its re-arm order in this step
Rearmed(u) ==
  /\ u.kind = "onOrderUpdate"
  /\ u.pc = "placeLimit"
  /\ CopiesIn(u, tasks') > CopiesIn(u, tasks)

\* C12: a re-arm order is issued only while a price of the product is known,
\* for a long entry only with its level below that price and for a short entry
\* only with its level above it
C12_RearmOnlyOnValidSide ==
  [][\A u \in BagToSet(tasks') :
       Rearmed(u) =>
         LET price == latestPrices[u.lvl.productId]
         IN /\ price # 0
            /\ u.lvl.side = "long" => u.lvl.price < price
            /\ u.lvl.side = "short" => u.lvl.price > price]_vars

\* a short level is being re-armed while the price is under it
C12_Witness ==
  \E u \in Running :
    /\ u.kind = "onOrderUpdate"
    /\ u.pc = "placeLimit"
    /\ u.lvl.side = "short"
    /\ latestPrices[u.lvl.productId] = 8

\* the activations of the stream handlers and of the refresh cycle that are
\* suspended at a gateway call
InProgress(b) ==
  LET hs == {u \in BagToSet(b) : u.kind \in {"onFill", "onOrderUpdate", "refresh"}}
      RECURSIVE Sum(_)
      Sum(S) == IF S = {} THEN 0
                ELSE LET u == CHOOSE x \in S : TRUE
                     IN CopiesIn(u, b) + Sum(S \ {u})
  IN Sum(hs)

\* C13: at most one activation of a stream handler or of the refresh cycle is
\* in progress at any time
C13_HandlersSerialized == InProgress(tasks) <= 1

\* ------------------------------------------------------------ refresh cycle
\* a refresh activation is suspended at a cancel (pc) with cands left to do,
\* the head of cands being the position whose order is being cancelled
SweepAt(pc, cands) ==
  \E u \in BagToSet(tasks') : u.kind = "refresh" /\ u.pc = pc /\ u.cands = cands

\* the sweep is over: the tracker is purged and the placement routine runs over
\* the new levels, up to its first order or, with nothing to place, to its end
PurgeAndPlace ==
  LET IsActive(r) == objs[r].status \in Active
      Blocked(l) == \/ latestPrices[l.productId] = 0
                    \/ \E r \in Range(positions') :
                         /\ objs'[r].status \in Active
                         /\ objs'[r].productId = l.productId
                         /\ objs'[r].side = l.side
                         /\ objs'[r].level = l.price
  IN /\ positions' = SelectSeq(positions, IsActive)
     /\ \/ \E u \in BagToSet(tasks'), i \in 1..Len(levels') :
             /\ u.kind = "refresh" /\ u.pc = "placeLimit"
             /\ u.lvl = levels'[i]
             /\ ~Blocked(levels'[i])
             /\ \A j \in 1..(i - 1) : Blocked(levels'[j])
        \/ /\ SweepCount(tasks') < SweepCount(tasks)
           /\ \A i \in 1..Len(levels') : Blocked(levels'[i])
           /\ \A u \in BagToSet(tasks') :
                u.kind = "refresh" => CopiesIn(u, tasks') <= CopiesIn(u, tasks)

\* the second loop of the sweep starts: TP then SL of every filled position
FilledPhase ==
  LET IsFilled(r) == objs[r].status = "filled"
      filled == SelectSeq(positions, IsFilled)
  IN IF filled # <<>> THEN SweepAt("cancelTp", filled) ELSE PurgeAndPlace

\* the first loop of the sweep goes on over cands
PendingPhase(cands) ==
  IF cands # <<>> THEN SweepAt("cancelPending", cands) ELSE FilledPhase

\* C14: a refresh cycle cancels the entry of every pending position, then the
\* TP and the SL of every filled position, then purges the tracker and runs
\* the placement routine over the new levels; whatever a cancel returned, the
\* cycle goes on with the next one
C14_RefreshSweepsEverything ==
  [][/\ \A task \in Running, cds \in CandleChoices :
          RefreshLevelsDone(task, cds) =>
            LET IsPending(r) == objs[r].status = "pending"
            IN PendingPhase(SelectSeq(positions, IsPending))
     /\ \A task \in Running, ok \in BOOLEAN :
          /\ CancelPendingDone(task, ok) => PendingPhase(Tail(task.cands))
          /\ CancelTpDone(task, ok) => SweepAt("cancelSl", task.cands)
          /\ CancelSlDone(task, ok) =>
               IF Tail(task.cands) # <<>> THEN SweepAt("cancelTp", Tail(task.cands))
               ELSE PurgeAndPlace]_vars

\* a cycle that has cancelled the entry of a pending position is cancelling the
\* SL of a filled one
C14_Witness ==
  /\ \E u \in Running : u.kind = "refresh" /\ u.pc = "cancelSl"
  /\ \E r \in Registry : objs[r].status = "pending"
  /\ \E r \in Registry : objs[r].status = "filled"

\* ------------------------------------------------------------ shutdown
\* C15: no refresh cycle starts once stop has begun, and when stop returns it
\* has sent a cancel for the entry of every pending position and for the TP
\* and the SL of every filled position
C15_StopCancelsEveryLiveOrder ==
  [][/\ RefreshTick => \A u \in Running : u.kind # "stop"
     /\ \A task \in Running :
          (task.kind = "stop" /\ ~exited /\ exited') =>
            \A r \in Registry :
              /\ objs[r].status = "pending" => objs[r].entryOrderDigest \in task.tried
              /\ objs[r].status = "filled" =>
                   {objs[r].tpOrderDigest, objs[r].slOrderDigest} \subseteq task.tried]_vars

\* ------------------------------------------------------ WebSocketManager
\* number of send calls in a run, and of the messages the listeners of
\* 'connected' send while the event is emitted
MaxSends == 3
MaxSubscriptions == 1

RECURSIVE Pow2(_)
Pow2(n) == IF n = 0 THEN 1 ELSE 2 * Pow2(n - 1)

Min(a, b) == IF a <= b THEN a ELSE b

\* the payloads of the send calls number from..to, in call order
Payloads(from, to) == [i \in 1..(to - from + 1) |-> from + i - 1]

\* a fixed delay
reconnectDelayFlat(attempts) == baseReconnectDelay

\* no timeout is set
reconnectDelayNone(attempts) == 0

\* scheduleReconnect: the delay of the timeout for the given attempt count
reconnectDelay(attempts) ==
  Min(baseReconnectDelay * Pow2(attempts), maxReconnectDelay)

\* reconnecting also during shutdown
connectAlways(shuttingDown) == TRUE

\* connect: whether a socket is created
connect(shuttingDown) == ~shuttingDown

\* the queue after the open handler, had it been kept
pendingAfterFlushKept(pending) == pending

\* the queue after the open handler sent it
pendingAfterFlush(pending) == <<>>

\* the call of connect by main
StreamConnect ==
  /\ readyState = "none"
  /\ ~isShuttingDown
  /\ IF connect(isShuttingDown)
       THEN ws' = TRUE /\ readyState' = "CONNECTING"
       ELSE UNCHANGED <<ws, readyState>>
  /\ UNCHANGED <<reconnectAttempts, isShuttingDown, pendingMessages, pingInterval,
                 reconnectTimer, transmitted, sends, closes>>

\* the timeout of scheduleReconnect fires: connect
ReconnectTimerFires ==
  /\ reconnectTimer # 0
  /\ reconnectTimer' = 0
  /\ IF connect(isShuttingDown)
       THEN ws' = TRUE /\ readyState' = "CONNECTING"
       ELSE UNCHANGED <<ws, readyState>>
  /\ UNCHANGED <<reconnectAttempts, isShuttingDown, pendingMessages, pingInterval,
                 transmitted, sends, closes>>

\* the 'open' handler: the listeners of 'connected' call send n times (the
\* socket is open, so these go out at once), then the queue is sent and
\* emptied, then startPing
SocketOpen(n) ==
  /\ readyState = "CONNECTING"
  /\ sends + n <= MaxSends
  /\ readyState' = "OPEN"
  /\ reconnectAttempts' = 0
  /\ closes' = 0
  /\ sends' = sends + n
  /\ transmitted' = transmitted \o Payloads(sends + 1, sends + n)
                     \o (IF ws THEN pendingMessages ELSE <<>>)
  /\ pendingMessages' = pendingAfterFlush(pendingMessages)
  /\ pingInterval' = TRUE
  /\ UNCHANGED <<ws, isShuttingDown, reconnectTimer>>

\* the 'close' handler: stopPing, then scheduleReconnect unless shutting down
SocketClose ==
  /\ readyState \in {"CONNECTING", "OPEN", "CLOSING"}
  /\ readyState' = "CLOSED"
  /\ pingInterval' = FALSE
  /\ closes' = closes + 1
  /\ IF ~isShuttingDown /\ reconnectAttempts < maxReconnectAttempts
       THEN /\ reconnectTimer' = reconnectDelay(reconnectAttempts)
            /\ reconnectAttempts' = reconnectAttempts + 1
       ELSE UNCHANGED <<reconnectTimer, reconnectAttempts>>
  /\ UNCHANGED <<ws, isShuttingDown, pendingMessages, transmitted, sends>>

\* send: to the socket when it is open, else to the queue
Send ==
  /\ sends < MaxSends
  /\ sends' = sends + 1
  /\ IF ws /\ readyState = "OPEN"
       THEN /\ transmitted' = Append(transmitted, sends + 1)
            /\ UNCHANGED pendingMessages
       ELSE /\ pendingMessages' = Append(pendingMessages, sends + 1)
            /\ UNCHANGED transmitted
  /\ UNCHANGED <<ws, readyState, reconnectAttempts, isShuttingDown, pingInterval,
                 reconnectTimer, closes>>

\* disconnect: stopPing, close the socket and forget it
Disconnect ==
  /\ ~isShuttingDown
  /\ isShuttingDown' = TRUE
  /\ pingInterval' = FALSE
  /\ ws' = FALSE
  /\ readyState' = IF ws /\ readyState \in {"CONNECTING", "OPEN"} THEN "CLOSING"
                    ELSE readyState
  /\ UNCHANGED <<reconnectAttempts, pendingMessages, reconnectTimer, transmitted,
                 sends, closes>>

NextStream ==
  \/ StreamConnect /\ UNCHANGED <<engineVars, gatewayVars, calcVars, dispatched>>
  \/ ReconnectTimerFires /\ UNCHANGED <<engineVars, gatewayVars, calcVars, dispatched>>
  \/ \E n \in 0..MaxSubscriptions : SocketOpen(n) /\ UNCHANGED <<engineVars, gatewayVars, calcVars, dispatched>>
  \/ SocketClose /\ UNCHANGED <<engineVars, gatewayVars, calcVars, dispatched>>
  \/ Send /\ UNCHANGED <<engineVars, gatewayVars, calcVars, dispatched>>
  \/ Disconnect /\ UNCHANGED <<engineVars, gatewayVars, calcVars, dispatched>>

SpecStream == Init /\ [][NextStream]_vars

\* C16: outside shutdown, the Nth close event in a row (no open event in
\* between) schedules a reconnect after min(1000 * 2^(N-1), 30000) ms for
\* N up to 20, and none for N above 20
C16_ReconnectBackoff ==
  [][(SocketClose /\ ~isShuttingDown) =>
       IF closes' <= 20
         THEN reconnectTimer' = Min(1000 * Pow2(closes' - 1), 30000)
         ELSE reconnectTimer' = 0]_vars

\* all 20 attempts are used and one more close scheduled nothing
C16_Witness ==
  /\ ~isShuttingDown
  /\ reconnectAttempts = 20
  /\ closes = 21
  /\ readyState = "CLOSED"
  /\ reconnectTimer = 0

\* every payload of a send call so far is in the queue or was handed to a
\* socket, once
EachPayloadOnce ==
  LET all == transmitted \o pendingMessages
  IN /\ Len(all) = sends
     /\ \A k \in 1..sends : \E i \in 1..Len(all) : all[i] = k

\* C17: a send while the socket is not open appends the payload to the queue;
\* an open event hands the queue to the socket in queue order and empties it;
\* no payload is lost or handed over twice
C17_QueuedSentOnceInOrder ==
  /\ []EachPayloadOnce
  /\ [][/\ (Send /\ ~(ws /\ readyState = "OPEN")) =>
            /\ pendingMessages' = Append(pendingMessages, sends + 1)
            /\ transmitted' = transmitted
        /\ \A n \in 0..MaxSubscriptions :
            SocketOpen(n) =>
              /\ pendingMessages' = <<>>
              /\ transmitted' = transmitted \o Payloads(sends + 1, sends + n)
                                 \o pendingMessages]_vars

\* payloads 1 and 2 were queued and went out, in order, after the payload a
\* listener sent during the open event; a reconnect is under way since
C17_Witness ==
  /\ transmitted = <<3, 1, 2>>
  /\ pendingMessages = <<>>
  /\ readyState = "CONNECTING"
  /\ reconnectAttempts = 1

\* C18: once disconnect was called no socket is created and no reconnect is
\* scheduled, whether a close event arrives or a reconnect timeout fires
C18_NoReconnectAfterDisconnect ==
  [][isShuttingDown =>
       /\ isShuttingDown'
       /\ readyState' = "CONNECTING" => readyState = "CONNECTING"
       /\ ~ws'
       /\ reconnectTimer' \in {0, reconnectTimer}
       /\ SocketClose => reconnectTimer' = reconnectTimer
       /\ ReconnectTimerFires => readyState' = readyState]_vars

\* a reconnect timeout scheduled before disconnect has fired after it
C18_Witness ==
  /\ isShuttingDown
  /\ reconnectTimer = 0
  /\ readyState = "CLOSED"
  /\ closes >= 1
  /\ closes = reconnectAttempts

\* ------------------------------------- WebSocketManager: timers are fair
\* the step of the event loop that runs the timeout of scheduleReconnect
ReconnectTimerStep ==
  ReconnectTimerFires /\ UNCHANGED <<engineVars, gatewayVars, calcVars, dispatched>>

\* a timeout that is due is run
SpecStreamFair == SpecStream /\ WF_vars(ReconnectTimerStep)

\* the socket closed outside shutdown with an attempt left at that moment
ClosedWithAttemptLeft ==
  /\ readyState = "CLOSED"
  /\ ~isShuttingDown
  /\ closes \in 1..maxReconnectAttempts

\* an open event puts the attempt counter to zero, and the close that follows
\* an open event waits the base delay
OpenResetsBackoff ==
  [][/\ \A n \in 0..MaxSubscriptions : SocketOpen(n) => reconnectAttempts' = 0
     /\ (SocketClose /\ ~isShuttingDown /\ readyState = "OPEN") =>
          reconnectTimer' = baseReconnectDelay]_vars

\* C40 as stated: with fair timers, a close outside shutdown with fewer than
\* the maximum number of attempts used is followed by a new connection
\* attempt, and an open event restarts the backoff at the base delay
C40_ReconnectEventually ==
  /\ ClosedWithAttemptLeft ~> (readyState = "CONNECTING")
  /\ OpenResetsBackoff

\* C40: with fair timers, a close outside shutdown with fewer than the maximum
\* number of attempts used is followed by a new connection attempt unless
\* disconnect is called before the timeout runs, and an open event restarts
\* the backoff at the base delay
C40_ReconnectUnlessShutdown ==
  /\ ClosedWithAttemptLeft ~> (readyState = "CONNECTING" \/ isShuttingDown)
  /\ OpenResetsBackoff

\* a socket was open, it closed, the base delay passed and a new socket is
\* being connected
C40_Witness ==
  /\ readyState = "CONNECTING"
  /\ ~isShuttingDown
  /\ transmitted # <<>>
  /\ reconnectAttempts = 1
  /\ closes = 1
  /\ reconnectTimer = 0

\* ------------------------------------------- WebSocketManager: messages
\* A frame is text that does not parse, JSON that is no object (null), or an
\* object whose id and type fields are looked at; an empty type is falsy
MaxDispatched == 2
MessageTypes == {"absent", "empty", "fill", "best_bid_offer", "heartbeat"}
Messages ==
  [json : {"object"}, id : {"absent", "present"}, type : MessageTypes]
  \cup [json : {"invalid", "null"}, id : {"absent"}, type : {"absent"}]

\* a handler that looks at the type before the id
messageClassTypeFirst(msg) ==
  IF msg.json # "object" THEN "ignored"
  ELSE IF msg.type \notin {"absent", "empty"} THEN "event"
  ELSE IF msg.id # "absent" THEN "response"
  ELSE "ignored"

\* the 'message' handler: JSON.parse, or reading a field of null, throws into
\* the catch; an id makes a subscription response; a truthy type an event
messageClass(msg) ==
  IF msg.json # "object" THEN "ignored"
  ELSE IF msg.id # "absent" THEN "response"
  ELSE IF msg.type \notin {"absent", "empty"} THEN "event"
  ELSE "ignored"

\* the switch of setupSubscriptions: the handler an event type is routed to
handlerOf(type) ==
  IF type = "best_bid_offer" THEN "onBestBidOffer"
  ELSE IF type = "fill" THEN "onFill"
  ELSE IF type = "order_update" THEN "onOrderUpdate"
  ELSE IF type = "position_change" THEN "onPositionChange"
  ELSE "unhandled"

\* a frame arrives on the socket
SocketMessage(msg) ==
  /\ readyState \in {"OPEN", "CLOSING"}
  /\ IF messageClass(msg) = "event"
       THEN /\ Len(dispatched) < MaxDispatched
            /\ dispatched' = Append(dispatched, [type |-> msg.type,
                                                  handler |-> handlerOf(msg.type)])
       ELSE UNCHANGED dispatched
  /\ UNCHANGED <<ws, readyState, reconnectAttempts, isShuttingDown, pendingMessages,
                 pingInterval, reconnectTimer, transmitted, sends, closes>>

NextMessages ==
  \/ NextStream
  \/ \E msg \in Messages : SocketMessage(msg) /\ UNCHANGED <<engineVars, gatewayVars, calcVars>>

SpecMessages == Init /\ [][NextMessages]_vars

\* C32: a frame with an id is a subscription response and is never dispatched,
\* type or no type; an object with a (non-empty) type and no id is dispatched
\* once, to the handler of its type; every other frame, text that is not JSON
\* included, is dropped; no frame touches the connection
C32_MessagesByShape ==
  [][\A msg \in Messages :
       SocketMessage(msg) =>
         /\ UNCHANGED <<ws, readyState, reconnectAttempts, isShuttingDown,
                        pendingMessages, pingInterval, reconnectTimer, transmitted>>
         /\ IF msg.json = "object" /\ msg.id = "absent"
                /\ msg.type \notin {"absent", "empty"}
              THEN /\ Len(dispatched') = Len(dispatched) + 1
                   /\ SubSeq(dispatched', 1, Len(dispatched)) = dispatched
                   /\ dispatched'[Len(dispatched')].type = msg.type
              ELSE dispatched' = dispatched]_vars

\* a fill event went to onFill while the socket is open
C32_Witness ==
  /\ readyState = "OPEN"
  /\ \E i \in DOMAIN dispatched :
       dispatched[i].type = "fill" /\ dispatched[i].handler = "onFill"

\* ------------------------------------------- the stream starts the engine
\* main wires the 'connected' event of the WebSocketManager to start: every
\* open of a socket, the first one and each reconnect, runs the listener
MaxRestarts == 2

\* the 'open' handler emits 'connected'; main's listener sleeps and calls start
OpenedAndConnected ==
  /\ SocketOpen(0)
  /\ ConnectedUpTo(MaxRestarts)
  /\ UNCHANGED <<gatewayVars, calcVars, dispatched>>

NextRestart ==
  \/ StreamConnect /\ UNCHANGED <<engineVars, gatewayVars, calcVars, dispatched>>
  \/ ReconnectTimerFires /\ UNCHANGED <<engineVars, gatewayVars, calcVars, dispatched>>
  \/ OpenedAndConnected
  \/ SocketClose /\ UNCHANGED <<engineVars, gatewayVars, calcVars, dispatched>>
  \/ \E task \in Running, cds \in CandleChoices : StartLevelsDone(task, cds) /\ UNCHANGED <<streamVars, gatewayVars, calcVars>>
  \/ \E task \in Running, q \in Quotes \cup {NoQuote} : StartPriceDone(task, q) /\ UNCHANGED <<streamVars, gatewayVars, calcVars>>
  \/ \E task \in Running, ok \in BOOLEAN : PlaceLimitDone(task, ok) /\ UNCHANGED <<streamVars, gatewayVars, calcVars>>
  \/ \E task \in Running : SleepDone(task) /\ UNCHANGED <<streamVars, gatewayVars, calcVars>>

SpecRestart == Init /\ [][NextRestart]_vars

\* C33: over any sequence of connect, close and reconnect events start runs at
\* most once and at most one refresh timer is scheduled
C33_OneStartOneTimer ==
  /\ starts <= 1
  /\ timers <= 1

\* ---------------------------------------------------------- OrderManager
Placements == {"placeLimitOrder", "placeTakeProfitOrder", "placeStopLossOrder"}
Triggers == {"placeTakeProfitOrder", "placeStopLossOrder"}
Cancels == {"cancelOrder", "cancelTriggerOrder"}
Operations == Placements \cup Cancels \cup {"getMarketPrice"}

\* raw prices handed to the placements
GatewayPrices == {7, 11}

\* getAllMarkets: increments delivered, none usable, or the call fails
MarketsResults == {"ok", "empty", "throws"}

\* the client call of an operation: it answers, answers without the fields
\* the operation reads, or fails
ClientResults == {"ok", "malformed", "throws"}

\* an exception leaves the operation
Rethrown(body, op) == body

\* the try/catch around the body of every operation: an exception becomes the
\* operation's failure result ({digest: '', success: false}, false, null)
Caught(body, op) ==
  IF body.threw
    THEN [body EXCEPT !.threw = FALSE, !.success = FALSE, !.submittedPrice = NoPrice,
                      !.submittedTriggerPrice = NoPrice]
    ELSE body

\* an operation is called: up to its first client call, which for a placement
\* without increments is getAllMarkets (in normalizePrice)
GatewayCall(op, productId, trigger, price) ==
  /\ call = NoCall
  /\ call' = [op |-> op, productId |-> productId, price |-> price, trigger |-> trigger,
               ticksFailed |-> FALSE,
               pc |-> IF op \in Placements /\ ~priceIncrementLoaded
                        THEN "markets" ELSE "client",
               submitted |-> 0]
  /\ UNCHANGED <<outcome, priceIncrementLoaded>>

\* getAllMarkets resolved inside ensurePriceIncrementsLoaded, whose try/catch
\* keeps a failure to itself; a trigger placement normalizes its trigger price
\* first and its limit price after, loading again if nothing is loaded yet
MarketsDone(answer) ==
  /\ call.pc \in {"markets", "markets2"}
  /\ LET loaded == ensurePriceIncrementsLoaded(priceIncrementLoaded, answer = "ok")
         again == call.op \in Triggers /\ call.pc = "markets" /\ ~loaded
     IN /\ priceIncrementLoaded' = loaded
        /\ call' = [call EXCEPT
                      !.pc = IF again THEN "markets2" ELSE "client",
                      !.ticksFailed = @ \/ answer = "throws",
                      !.submitted = IF call.op \in Triggers /\ call.pc = "markets"
                                      THEN normalizePrice(loaded, call.productId, call.trigger)
                                      ELSE @]
  /\ UNCHANGED outcome

\* the client call of the operation resolved: the operation returns
ClientDone(res) ==
  /\ call.pc = "client"
  /\ LET failed == \/ res = "throws"
                   \/ res = "malformed" /\ call.op \notin Cancels
         trig == IF call.op \notin Triggers THEN NoPrice
                 ELSE IF call.submitted # 0 THEN call.submitted
                 ELSE normalizePrice(priceIncrementLoaded, call.productId, call.trigger)
         body == [op |-> call.op, threw |-> failed, success |-> ~failed,
                  submittedPrice |-> IF call.op \in Placements /\ ~failed
                                       THEN normalizePrice(priceIncrementLoaded,
                                                           call.productId, call.price)
                                       ELSE NoPrice,
                  submittedTriggerPrice |-> IF failed THEN NoPrice ELSE trig,
                  ticksFailed |-> call.ticksFailed,
                  clientFailed |-> failed]
     IN outcome' = Caught(body, call.op)
  /\ call' = NoCall
  /\ UNCHANGED priceIncrementLoaded

gatewayFrame == <<objs, positions, digestToPositionId, levels, isRunning, latestPrices,
                  levelRefreshInterval, timers, marketsUp, starts, ticks, exited, tasks,
                  streamVars, calcVars, ticksVars>>

NextGateway ==
  \/ \E op \in Operations, p \in Products, t \in GatewayPrices, x \in GatewayPrices :
       GatewayCall(op, p, IF op \in Triggers THEN t ELSE 0,
                   IF op \in Placements THEN x ELSE 0) /\ UNCHANGED gatewayFrame
  \/ \E answer \in MarketsResults : MarketsDone(answer) /\ UNCHANGED gatewayFrame
  \/ \E res \in ClientResults : ClientDone(res) /\ UNCHANGED gatewayFrame

SpecGateway == Init /\ [][NextGateway]_vars

\* C19 as stated: an operation hands no exception to its caller, and after any
\* failure of the client during the operation, the load of the tick sizes
\* included, it hands back its failure result
C19_AnyFailureIsFailureResult ==
  /\ ~outcome.threw
  /\ (outcome.clientFailed \/ outcome.ticksFailed) => ~outcome.success

\* C19 amended: an operation hands no exception to its caller, and hands back
\* its failure result when its own client call failed; a failed load of the
\* tick sizes alone does not fail the operation
C19_NoExceptionLeaves ==
  /\ ~outcome.threw
  /\ outcome.clientFailed => (~outcome.success /\ outcome.submittedPrice = NoPrice)
  /\ (outcome.op # "none" /\ ~outcome.clientFailed) => outcome.success

\* a take-profit placement failed at the venue after the tick sizes had
\* failed to load
C19_Witness ==
  /\ outcome.op = "placeTakeProfitOrder"
  /\ outcome.clientFailed
  /\ outcome.ticksFailed
  /\ ~outcome.success

\* ------------------------------------------------------ price normalization
\* m is a multiple of the tick size of the product nearest to price
NearestTickMultiple(m, productId, price) ==
  LET d == IF m >= price THEN m - price ELSE price - m
  IN m % PriceIncrement[productId] = 0 /\ 2 * d <= PriceIncrement[productId]

\* the records a step added to the tracker
Created == DOMAIN objs' \ DOMAIN objs

\* C20 as stated: the price of every entry submission is the multiple of the
\* product's tick size nearest to the raw level, and it is the level of the
\* record created for the order
C20_SubmittedAndRecordedSnapped ==
  [][\A task \in Running, ok \in BOOLEAN :
       PlaceLimitDone(task, ok) =>
         /\ NearestTickMultiple(task.submitted, task.lvl.productId, task.lvl.price)
         /\ \A r \in Created : objs'[r].level = task.submitted]_vars

\* C20 amended: while the venue delivers the tick sizes the submitted price is
\* the nearest multiple of the tick size, without them it is the raw level; in
\* both cases it is the level of the record created for the order
C20_SnappedWhenTickKnown ==
  [][\A task \in Running, ok \in BOOLEAN :
       PlaceLimitDone(task, ok) =>
         /\ marketsUp =>
              NearestTickMultiple(task.submitted, task.lvl.productId, task.lvl.price)
         /\ ~marketsUp => task.submitted = task.lvl.price
         /\ \A r \in Created : objs'[r].level = task.submitted]_vars

\* a record carries level 8, the raw level 7 snapped to the tick size 2
C20_Witness ==
  /\ marketsUp
  /\ \E r \in Registry : objs[r].level = 8 /\ objs[r].status = "pending"

\* C23: a fill event or an order-update event whose reference resolves to no
\* position is ignored: the registry, the index and the registered objects stay
\* as they were, and no gateway call is started (no activation is left waiting,
\* the tick sizes are not fetched)
C23_UntrackedEventIgnored ==
  [][\A d \in {e \in EventDigests : getByDigest(Tr, e) = NoDigest} :
       ((\E sp \in StreamPrices : OnFill(d, sp)) \/ (\E reason \in Reasons : OnOrderUpdate(d, reason)))
       => /\ TrackerSame
          /\ tasks' = tasks
          /\ priceIncrementLoaded' = priceIncrementLoaded]_vars

\* the engine tracks a pending position and can take an event whose reference
\* the index does not hold
C23_Witness ==
  /\ ~exited
  /\ HasRoom
  /\ \E r \in Registry : objs[r].status = "pending"
  /\ \E d \in EventDigests : d.side \in FilledSides /\ getByDigest(Tr, d) = NoDigest

\* C25: the placement routine of start and of the refresh cycle submits a long
\* entry only at a level below the product's current price and a short entry
\* only at a level above it
C25_EntriesOnTheirSideOfThePrice ==
  [][\A u \in BagToSet(tasks') :
       (/\ u.kind \in {"start", "refresh"}
        /\ u.pc = "placeLimit"
        /\ CopiesIn(u, tasks') > CopiesIn(u, tasks))
       => IF u.lvl.side = "long"
            THEN u.lvl.price < latestPrices'[u.lvl.productId]
            ELSE u.lvl.price > latestPrices'[u.lvl.productId]]_vars

\* markCancelled on the tracker as it stands: a pending position becomes
\* cancelled and nothing else changes; any other position, and an unknown
\* digest, leave the tracker as it is; a second call changes nothing
MarkCancelledOnlyPending ==
  \A d \in EventDigests :
    LET r == getByDigest(Tr, d)
        once == markCancelled(Tr, d)
    IN /\ markCancelled(once, d) = once
       /\ IF r # NoDigest /\ objs[r].status = "pending"
            THEN once = [Tr EXCEPT !.objs = [@ EXCEPT ![r] = [@ EXCEPT !.status = "cancelled"]]]
            ELSE once = Tr

\* an order-update with reason cancelled for the entry order of a pending
\* position cancels the position
CancelledUpdateApplied ==
  \A d \in DOMAIN digestToPositionId :
    LET r == getByDigest(Tr, d)
    IN (/\ r # NoDigest
        /\ d = objs[r].entryOrderDigest
        /\ objs[r].status = "pending"
        /\ OnOrderUpdate(d, "cancelled"))
       => /\ positions' = positions
          /\ digestToPositionId' = digestToPositionId
          /\ objs'[r] = [objs[r] EXCEPT !.status = "cancelled"]
          /\ \A q \in Registry \ {r} : objs'[q] = objs[q]

\* C27: markCancelled changes a position only while it is pending, setting it
\* to cancelled; on a filled, tp_hit, sl_hit or cancelled position it changes
\* nothing, so twice equals once; the engine applies it when an order-update
\* with reason cancelled names the entry reference of a pending position
C27_MarkCancelledOnlyPending ==
  []MarkCancelledOnlyPending /\ [][CancelledUpdateApplied]_vars

\* a cancelled position and a filled one are registered
C27_Witness ==
  /\ \E r \in Registry : objs[r].status = "cancelled"
  /\ \E r \in Registry : objs[r].status = "filled"

\* a filled order-update for a TP or SL reference marks the exit and sends the
\* cancel of the other reference; no re-arm order goes out in that step
ExitMarkedThenCancel ==
  \A d \in DOMAIN digestToPositionId :
    LET r == getByDigest(Tr, d)
        isTp == d = objs[r].tpOrderDigest
        other == IF isTp THEN objs[r].slOrderDigest ELSE objs[r].tpOrderDigest
    IN (/\ r # NoDigest
        /\ d \in {objs[r].tpOrderDigest, objs[r].slOrderDigest}
        /\ OnOrderUpdate(d, "filled"))
       => /\ objs'[r].status = (IF isTp THEN "tp_hit" ELSE "sl_hit")
          /\ \E u \in BagToSet(tasks') :
               /\ u.kind = "onOrderUpdate" /\ u.pc = "cancelPaired"
               /\ u.pos = r /\ u.paired = other
               /\ CopiesIn(u, tasks') = CopiesIn(u, tasks) + 1
          /\ \A u \in BagToSet(tasks') : ~Rearmed(u)

\* a re-arm order goes out only in the step in which a paired cancel resolved,
\* only while the engine is running, and for the product, side, level and size
\* of the exited position; with the engine stopped that step changes nothing
RearmAfterCancel ==
  /\ \A u \in BagToSet(tasks') :
       Rearmed(u) =>
         \E task \in Running :
           /\ At(task, "onOrderUpdate", "cancelPaired")
           /\ CancelPairedDone(task)
           /\ isRunning
           /\ u.lvl = [productId |-> objs[task.pos].productId,
                       price |-> objs[task.pos].level,
                       side |-> objs[task.pos].side,
                       size |-> objs[task.pos].size]
  /\ \A task \in Running :
       (/\ At(task, "onOrderUpdate", "cancelPaired")
        /\ CancelPairedDone(task)
        /\ ~isRunning)
       => TrackerSame /\ tasks' = tasks (-) SetToBag({task})

\* C28: on a filled order-update for a TP or SL reference the engine marks the
\* exit and sends the cancel of the paired reference; only when that cancel has
\* resolved does it attempt the re-arm, whose entry is submitted only if the
\* engine is running then, at the level and size of the exited position
C28_ExitThenCancelThenRearm ==
  [][ExitMarkedThenCancel /\ RearmAfterCancel]_vars

\* the re-arm order of an exited long position is in flight
C28_Witness ==
  \E u \in Running :
    /\ u.kind = "onOrderUpdate"
    /\ u.pc = "placeLimit"
    /\ u.lvl.side = "long"
    /\ isRunning

\* an activation of start or of the refresh cycle that issued an entry order
\* in this step
PlacedByRoutine(u) ==
  /\ u.kind \in {"start", "refresh"}
  /\ u.pc = "placeLimit"
  /\ CopiesIn(u, tasks') > CopiesIn(u, tasks)

\* C29: the placement routine submits an entry only for a level whose product
\* has a known price and whose slot (product, side, submitted price) holds no
\* active position, with a positive amount for a long and a negative one for a
\* short; it moves on to a later level after each submission, and it creates
\* a position, pending, only for a submission that succeeded
C29_PlacementRoutine ==
  [][/\ \A u \in BagToSet(tasks') :
          PlacedByRoutine(u) =>
            /\ latestPrices'[u.lvl.productId] # 0
            /\ ~\E r \in Range(positions') :
                  /\ objs'[r].status \in Active
                  /\ objs'[r].productId = u.lvl.productId
                  /\ objs'[r].side = u.lvl.side
                  /\ objs'[r].level = u.submitted
            /\ u.lvl.side = "long" => Amount(u.lvl.side, u.lvl.size) > 0
            /\ u.lvl.side = "short" => Amount(u.lvl.side, u.lvl.size) < 0
            /\ u.lvl = Head(u.todo)
     /\ \A task \in Running :
          (task.kind \in {"start", "refresh"} /\ task.pc = "sleep" /\ SleepDone(task)) =>
            \A u \in BagToSet(tasks') :
              PlacedByRoutine(u) => Len(u.todo) < Len(task.todo)
     /\ \A task \in Running, ok \in BOOLEAN :
          (task.kind \in {"start", "refresh"} /\ PlaceLimitDone(task, ok)) =>
            /\ \A r \in Created : ok /\ objs'[r].status = "pending"
            /\ ~ok => TrackerSame]_vars

\* C30: a fill event starts the fill handling (opposite-side cancels, TP/SL
\* placement, markFilled) only when its reference is the entry reference of a
\* pending position; a TP or SL reference, or a reference of an earlier record
\* of the slot, never sets it off for another position
C30_FillOnlyForPendingEntry ==
  [][\A d \in EventDigests, sp \in StreamPrices :
       (/\ OnFill(d, sp)
        /\ \E u \in BagToSet(tasks') :
             /\ u.kind = "onFill" /\ u.digest = d
             /\ CopiesIn(u, tasks') > CopiesIn(u, tasks))
       => LET r == getByEntryDigest(Tr, d)
          IN /\ r # NoDigest
             /\ objs[r].status = "pending"
             /\ objs[r].entryOrderDigest = d]_vars

\* ------------------------------------- OrderManager: loading the tick sizes
\* Submissions call ensurePriceIncrementsLoaded one after another or while an
\* earlier call is still waiting for getAllMarkets.
MaxFetches == 3

\* an ensurePriceIncrementsLoaded that does not look for a load under way
EnsureCalledAlone(c) ==
  /\ ensureCalls[c] = "idle"
  /\ IF priceIncrementLoaded
       THEN /\ ensureCalls' = [ensureCalls EXCEPT ![c] = "returned"]
            /\ UNCHANGED <<priceIncrementLoadPromise, marketFetches>>
       ELSE /\ marketFetches < MaxFetches
            /\ priceIncrementLoadPromise' = TRUE
            /\ marketFetches' = marketFetches + 1
            /\ ensureCalls' = [ensureCalls EXCEPT ![c] = "await"]
  /\ UNCHANGED priceIncrementLoaded

\* ensurePriceIncrementsLoaded up to its await: a filled map returns at once,
\* a load under way is awaited, otherwise getAllMarkets is called
EnsureCalled(c) ==
  /\ ensureCalls[c] = "idle"
  /\ IF priceIncrementLoaded
       THEN /\ ensureCalls' = [ensureCalls EXCEPT ![c] = "returned"]
            /\ UNCHANGED <<priceIncrementLoadPromise, marketFetches>>
     ELSE IF priceIncrementLoadPromise
       THEN /\ ensureCalls' = [ensureCalls EXCEPT ![c] = "await"]
            /\ UNCHANGED <<priceIncrementLoadPromise, marketFetches>>
       ELSE /\ marketFetches < MaxFetches
            /\ priceIncrementLoadPromise' = TRUE
            /\ marketFetches' = marketFetches + 1
            /\ ensureCalls' = [ensureCalls EXCEPT ![c] = "await"]
  /\ UNCHANGED priceIncrementLoaded

\* getAllMarkets resolved: usable increments fill the map, an empty answer and
\* a failure leave it empty; finally the promise field is reset, and the
\* promise resolves for everyone waiting on it
MarketsLoaded(answer) ==
  /\ priceIncrementLoadPromise
  /\ priceIncrementLoaded' = ensurePriceIncrementsLoaded(priceIncrementLoaded, answer = "ok")
  /\ priceIncrementLoadPromise' = FALSE
  /\ ensureCalls' = [c \in Callers |->
                       IF ensureCalls[c] = "await" THEN "resolved" ELSE ensureCalls[c]]
  /\ UNCHANGED marketFetches

\* a caller whose promise resolved goes on
EnsureResumed(c) ==
  /\ ensureCalls[c] = "resolved"
  /\ ensureCalls' = [ensureCalls EXCEPT ![c] = "returned"]
  /\ UNCHANGED <<priceIncrementLoaded, priceIncrementLoadPromise, marketFetches>>

\* the submission is over; the caller may submit again
SubmissionOver(c) ==
  /\ ensureCalls[c] = "returned"
  /\ ensureCalls' = [ensureCalls EXCEPT ![c] = "idle"]
  /\ UNCHANGED <<priceIncrementLoaded, priceIncrementLoadPromise, marketFetches>>

ticksFrame == <<objs, positions, digestToPositionId, levels, isRunning, latestPrices,
                levelRefreshInterval, timers, marketsUp, starts, ticks, exited, tasks,
                streamVars, calcVars, call, outcome>>

NextTicks ==
  \/ \E c \in Callers : EnsureCalled(c) /\ UNCHANGED ticksFrame
  \/ \E answer \in MarketsResults : MarketsLoaded(answer) /\ UNCHANGED ticksFrame
  \/ \E c \in Callers : EnsureResumed(c) /\ UNCHANGED ticksFrame
  \/ \E c \in Callers : SubmissionOver(c) /\ UNCHANGED ticksFrame

SpecTicks == Init /\ [][NextTicks]_vars

\* C31 as stated: getAllMarkets is called at most once over the lifetime of
\* the OrderManager, also when the first call fails or delivers no increment
C31_FetchedAtMostOnce == marketFetches <= 1

\* C31 amended: getAllMarkets is called only while no increment is loaded and
\* no load is under way, so concurrent submissions share one call and no call
\* follows a load that delivered increments; loaded increments stay loaded
C31_OneFetchAtATime ==
  [][/\ marketFetches' > marketFetches =>
          /\ ~priceIncrementLoaded
          /\ ~priceIncrementLoadPromise
          /\ marketFetches' = marketFetches + 1
     /\ priceIncrementLoaded => priceIncrementLoaded']_vars

\* two submissions wait for the one call made so far
C31_Witness ==
  /\ marketFetches = 1
  /\ priceIncrementLoadPromise
  /\ \E c, d \in Callers : c # d /\ ensureCalls[c] = "await" /\ ensureCalls[d] = "await"

\* C34: when the refresh sweep has sent the cancels of the TP and of the SL of
\* a filled position, the position is no longer registered as filled
C34_NoFilledWithoutProtection ==
  [][\A task \in Running, ok \in BOOLEAN :
       CancelSlDone(task, ok) =>
         LET r == Head(task.cands)
         IN ~(r \in Range(positions') /\ objs'[r].status = "filled")]_vars

\* C35: when the cancel of a pending entry succeeded and the sweep ends with
\* it, so that the purge and the placement routine run at once, the position is
\* no longer registered as pending or filled
C35_CancelledEntryNotActive ==
  [][\A task \in Running :
       (/\ CancelPendingDone(task, TRUE)
        /\ Tail(task.cands) = <<>>
        /\ FilledSnapshot(Tr) = <<>>)
       => LET r == Head(task.cands)
          IN ~(r \in Range(positions') /\ objs'[r].status \in Active)]_vars

\* C37: while stop is under way no entry order is submitted, by a placement
\* routine or refresh cycle already in progress, by a re-arm, or by a start
C37_NoEntryAfterStop ==
  [][(\E t \in Running : t.kind = "stop") =>
       \A u \in BagToSet(tasks') :
         ~(u.pc = "placeLimit" /\ CopiesIn(u, tasks') > CopiesIn(u, tasks))]_vars

\* the fill handlers that have submitted a TP and an SL for entry d and wait
\* for the two results
PlacingExits(d) ==
  LET hs == {u \in Running : u.kind = "onFill" /\ u.pc = "tpsl" /\ u.digest = d}
      RECURSIVE Sum(_)
      Sum(S) == IF S = {} THEN 0
                ELSE LET u == CHOOSE x \in S : TRUE
                     IN CopiesIn(u, tasks) + Sum(S \ {u})
  IN Sum(hs)

\* C38: for an entry order at most one TP and one SL are submitted, however
\* many fill events carry its reference and however they overlap
C38_OneExitPairPerEntry ==
  \A d \in Digests : PlacingExits(d) <= 1

\* C39: every registered record has an entry reference; a pending or cancelled
\* record has no TP reference, no SL reference and no fill price; a filled,
\* tp_hit or sl_hit record has all three, the TP and SL references differing
\* from each other and from the entry reference
C39_RecordShape ==
  \A r \in Registry :
    LET pos == objs[r]
    IN /\ pos.entryOrderDigest # NoDigest
       /\ pos.status \in {"pending", "cancelled"} =>
            /\ pos.tpOrderDigest = NoDigest
            /\ pos.slOrderDigest = NoDigest
            /\ pos.fillPrice = NoPrice
       /\ pos.status \in {"filled", "tp_hit", "sl_hit"} =>
            /\ pos.tpOrderDigest # NoDigest
            /\ pos.slOrderDigest # NoDigest
            /\ pos.fillPrice # NoPrice
            /\ pos.tpOrderDigest # pos.slOrderDigest
            /\ pos.tpOrderDigest # pos.entryOrderDigest
            /\ pos.slOrderDigest # pos.entryOrderDigest

\* an exited record is registered next to a pending one
C39_Witness ==
  /\ \E r \in Registry : objs[r].status \in {"tp_hit", "sl_hit"}
  /\ \E r \in Registry : objs[r].status = "pending"

\* ------------------------------------------- the placement routine, twice
\* start places the entries, then a refresh cycle with the same candles and
\* prices runs the routine again; no stream event arrives in between
NextTwice ==
  \/ Connected /\ UNCHANGED <<streamVars, gatewayVars, calcVars>>
  \/ \E task \in Running, cds \in [Products -> Candles] : StartLevelsDone(task, cds) /\ UNCHANGED <<streamVars, gatewayVars, calcVars>>
  \/ \E task \in Running, q \in Quotes \cup {NoQuote} : StartPriceDone(task, q) /\ UNCHANGED <<streamVars, gatewayVars, calcVars>>
  \/ \E task \in Running, ok \in BOOLEAN : PlaceLimitDone(task, ok) /\ UNCHANGED <<streamVars, gatewayVars, calcVars>>
  \/ \E task \in Running : SleepDone(task) /\ UNCHANGED <<streamVars, gatewayVars, calcVars>>
  \/ RefreshTick /\ UNCHANGED <<streamVars, gatewayVars, calcVars>>
  \/ \E task \in Running, cds \in [Products -> Candles] : RefreshLevelsDone(task, cds) /\ UNCHANGED <<streamVars, gatewayVars, calcVars>>
  \/ \E task \in Running, ok \in BOOLEAN : CancelPendingDone(task, ok) /\ UNCHANGED <<streamVars, gatewayVars, calcVars>>

SpecTwice == Init /\ [][NextTwice]_vars

\* C36: the second run of the placement routine submits no entry for a level
\* whose position from the first run is still active, also when the submitted
\* price is a tick multiple that differs from the raw level
C36_SecondRunPlacesNothing ==
  \A u \in Running :
    (u.kind = "refresh" /\ u.pc = "placeLimit") =>
      ~\E r \in Registry :
         /\ objs[r].status \in Active
         /\ objs[r].productId = u.lvl.productId
         /\ objs[r].side = u.lvl.side
         /\ objs[r].level = u.submitted

\* -------------------------------------------------------- level calculator
\* candle extremes and closes (units of 0.0001) and level counts handed to
\* calculatePivotLevels; 1100000, 900000, 1000000 are 110, 90 and 100
MaxLevelsCount == 2
PivotHighs == {9, 10, 11, 1100000}
PivotLows == {7, 8, 900000}
PivotCloses == {8, 9, 10, 1000000}

InitLevels ==
  /\ InitEngine
  /\ InitStream
  /\ InitGateway
  /\ exitCalc = NoCalc
  /\ pivotCalc \in [high : PivotHighs, low : PivotLows, close : PivotCloses,
                     rLevelsCount : 0..MaxLevelsCount, sLevelsCount : 0..MaxLevelsCount,
                     done : {FALSE}, result : {<<>>}]

\* calculatePivotLevels is applied to the arguments
CalculatePivotLevels ==
  /\ ~pivotCalc.done
  /\ pivotCalc' = [pivotCalc EXCEPT
                     !.done = TRUE,
                     !.result = calculatePivotLevels(pivotCalc.high, pivotCalc.low,
                                                     pivotCalc.close,
                                                     pivotCalc.rLevelsCount,
                                                     pivotCalc.sLevelsCount)]
  /\ UNCHANGED <<engineVars, streamVars, gatewayVars, exitCalc>>

NextLevels == CalculatePivotLevels

SpecLevels == InitLevels /\ [][NextLevels]_vars

\* price (a whole number of units) is the value three /3 rounded to the unit
RoundedThird(price, three) ==
  LET d == IF 3 * price >= three THEN 3 * price - three ELSE three - 3 * price
  IN 2 * d <= 3

C24_StandardPivotPoints ==
  pivotCalc.done =>
    LET H == pivotCalc.high
        L == pivotCalc.low
        C == pivotCalc.close
        rc == pivotCalc.rLevelsCount
        sc == pivotCalc.sLevelsCount
        out == pivotCalc.result
    IN /\ rc >= 1 => RoundedThird(out[1].price, 2 * (H + L + C) - 3 * L)
       /\ sc >= 1 => RoundedThird(out[rc + 1].price, 2 * (H + L + C) - 3 * H)
       /\ rc >= 2 => RoundedThird(out[2].price, H + L + C + 3 * (H - L))
       /\ sc >= 2 => RoundedThird(out[rc + 2].price, H + L + C - 3 * (H - L))

\* ------------------------------------------------ TP/SL arithmetic of onFill
\* In this part prices are whole units and the percentages of the
\* configuration are counted in quarters of a percent (6 is 1.5 %, 3 is
\* 0.75 %, 400 is 100 %). The derived prices are exact fractions, kept as
\* numerators over ExitScale = QuartersPerWhole * 1000.
QuartersPerWhole == 400
ExitScale == 400000

\* fill prices of the entry, the TP_PERCENT and SL_PERCENT of the
\* configuration (any number the environment holds) and order sizes
ExitFillPrices == {1, 100, 250}
ExitPercents == {3, 6, 400, 600}
ExitSizes == {1, 3}

\* an exit amount with the sign of the entry
ExitAmountAsEntry(isLong, size) == IF isLong THEN size ELSE -size

\* exitAmount: sell to close a long, buy to close a short
ExitAmount(isLong, size) == IF isLong THEN -size ELSE size

\* limit prices without the slippage buffer
ExitOrdersNoBuffer(isLong, fillPrice, tpPercent, slPercent, size) ==
  LET tpOffset == fillPrice * tpPercent
      slOffset == fillPrice * slPercent
      fill == fillPrice * QuartersPerWhole
  IN IF isLong
       THEN [tpTriggerPrice |-> (fill + tpOffset) * 1000,
             tpLimitPrice |-> (fill + tpOffset) * 1000,
             slTriggerPrice |-> (fill - slOffset) * 1000,
             slLimitPrice |-> (fill - slOffset) * 1000,
             exitAmount |-> ExitAmount(isLong, size)]
       ELSE [tpTriggerPrice |-> (fill - tpOffset) * 1000,
             tpLimitPrice |-> (fill - tpOffset) * 1000,
             slTriggerPrice |-> (fill + slOffset) * 1000,
             slLimitPrice |-> (fill + slOffset) * 1000,
             exitAmount |-> ExitAmount(isLong, size)]

\* the prices and the amount onFill hands to placeTakeProfitOrder and
\* placeStopLossOrder: offsets fillPrice * percent / 100, limit prices the
\* trigger times 0.995 (long) or 1.005 (short)
ExitOrders(isLong, fillPrice, tpPercent, slPercent, size) ==
  LET tpOffset == fillPrice * tpPercent
      slOffset == fillPrice * slPercent
      fill == fillPrice * QuartersPerWhole
  IN IF isLong
       THEN [tpTriggerPrice |-> (fill + tpOffset) * 1000,
             tpLimitPrice |-> (fill + tpOffset) * 995,
             slTriggerPrice |-> (fill - slOffset) * 1000,
             slLimitPrice |-> (fill - slOffset) * 995,
             exitAmount |-> ExitAmount(isLong, size)]
       ELSE [tpTriggerPrice |-> (fill - tpOffset) * 1000,
             tpLimitPrice |-> (fill - tpOffset) * 1005,
             slTriggerPrice |-> (fill + slOffset) * 1000,
             slLimitPrice |-> (fill + slOffset) * 1005,
             exitAmount |-> ExitAmount(isLong, size)]

NoOrders == [tpTriggerPrice |-> 0, tpLimitPrice |-> 0, slTriggerPrice |-> 0,
             slLimitPrice |-> 0, exitAmount |-> 0]

\* the entry order of the position under study
ExitEntry(side) == [productId |-> ProductSeq[1], side |-> side, kind |-> "entry", nonce |-> 1]

\* a running engine that tracks one pending position, and the configuration
InitExit ==
  /\ exitCalc \in [side : Sides, fillPrice : ExitFillPrices, tpPercent : ExitPercents,
                    slPercent : ExitPercents, size : ExitSizes, done : {FALSE},
                    pc : {"fill"}, orders : {NoOrders}, tpOk : {FALSE}, slOk : {FALSE}]
  /\ LET tr == createPosition([objs |-> <<>>, positions |-> <<>>, idx |-> <<>>],
                              ProductSeq[1], exitCalc.fillPrice, exitCalc.side,
                              exitCalc.size, ExitEntry(exitCalc.side))
     IN /\ objs = tr.objs
        /\ positions = tr.positions
        /\ digestToPositionId = tr.idx
  /\ levels = <<>>
  /\ isRunning = TRUE
  /\ latestPrices = [p \in Products |-> 0]
  /\ levelRefreshInterval = FALSE
  /\ timers = 0
  /\ priceIncrementLoaded = FALSE
  /\ starts = 0
  /\ ticks = 0
  /\ exited = FALSE
  /\ tasks = EmptyBag
  /\ marketsUp \in MarketsAnswers
  /\ InitStream
  /\ InitGateway
  /\ pivotCalc = NoCalc

\* the fill event of the entry arrives: onFill up to the Promise.all of the
\* two placements
ExitFill ==
  /\ exitCalc.pc = "fill"
  /\ OnFill(ExitEntry(exitCalc.side), [m |-> exitCalc.fillPrice, e |-> 0])
  /\ exitCalc' = [exitCalc EXCEPT
                    !.pc = "tpsl",
                    !.orders = ExitOrders(exitCalc.side = "long",
                                          normalizeStreamPrice([m |-> exitCalc.fillPrice,
                                                                e |-> 0]),
                                          exitCalc.tpPercent, exitCalc.slPercent,
                                          objs[ExitEntry(exitCalc.side)].size)]
  /\ UNCHANGED <<streamVars, gatewayVars, pivotCalc>>

\* both placements resolved
ExitPlaced(task, tpOk, slOk) ==
  /\ exitCalc.pc = "tpsl"
  /\ FillTpSlDone(task, tpOk, slOk)
  /\ exitCalc' = [exitCalc EXCEPT !.pc = "done", !.done = TRUE,
                                  !.tpOk = tpOk, !.slOk = slOk]
  /\ UNCHANGED <<streamVars, gatewayVars, pivotCalc>>

NextExit ==
  \/ ExitFill
  \/ \E task \in Running, tpOk \in BOOLEAN, slOk \in BOOLEAN : ExitPlaced(task, tpOk, slOk)

SpecExit == InitExit /\ [][NextExit]_vars

\* the long entry filled at 100 with TP 1.5 % and SL 0.75 %
ExitScenario ==
  /\ exitCalc.pc # "fill"
  /\ exitCalc.side = "long"
  /\ exitCalc.fillPrice = 100
  /\ exitCalc.tpPercent = 6
  /\ exitCalc.slPercent = 3

\* both placements succeeded: the position is filled, holds both references
ExitRecorded ==
  (exitCalc.pc = "done" /\ exitCalc.tpOk /\ exitCalc.slOk) =>
    LET r == ExitEntry(exitCalc.side)
    IN /\ r \in DOMAIN objs
       /\ objs[r].status = "filled"
       /\ objs[r].tpOrderDigest \in Digests /\ objs[r].tpOrderDigest.kind = "tp"
       /\ objs[r].slOrderDigest \in Digests /\ objs[r].slOrderDigest.kind = "sl"
       /\ getByDigest(Tr, objs[r].tpOrderDigest) = r
       /\ getByDigest(Tr, objs[r].slOrderDigest) = r

\* a is within 0.01 of b, both over ExitScale
Approximately(a, b) == a - b <= 4000 /\ b - a <= 4000

\* C22 as stated: a long filled at 100 with TP 1.5 % and SL 0.75 % gets a
\* take-profit with trigger 101.5 and limit about 101.4925 and a stop-loss with
\* trigger 99.25 and limit about 99.1513; when both placements succeed the
\* position is filled and holds both references
C22_ScenarioAsStated ==
  /\ ExitScenario =>
       /\ exitCalc.orders.tpTriggerPrice = 40600000
       /\ Approximately(exitCalc.orders.tpLimitPrice, 40597000)
       /\ exitCalc.orders.slTriggerPrice = 39700000
       /\ Approximately(exitCalc.orders.slLimitPrice, 39660520)
  /\ ExitRecorded

\* C22: a long filled at 100 with TP 1.5 % and SL 0.75 % gets a take-profit
\* with trigger 101.5 and limit 100.9925 (the trigger times 0.995) and a
\* stop-loss with trigger 99.25 and limit 98.75375; when both placements
\* succeed the position is filled and holds both references
C22_ScenarioPrices ==
  /\ ExitScenario =>
       /\ exitCalc.orders.tpTriggerPrice = 40600000
       /\ exitCalc.orders.tpLimitPrice = 40397000
       /\ exitCalc.orders.slTriggerPrice = 39700000
       /\ exitCalc.orders.slLimitPrice = 39501500
  /\ ExitRecorded

\* the scenario ran to its end with both placements accepted
C22_Witness ==
  /\ ExitScenario
  /\ exitCalc.pc = "done" /\ exitCalc.tpOk /\ exitCalc.slOk
  /\ objs[ExitEntry("long")].status = "filled"

\* the relations between the fill price and the derived prices
ExitOrdering ==
  LET o == exitCalc.orders
      fill == exitCalc.fillPrice * ExitScale
  IN IF exitCalc.side = "long"
       THEN /\ o.tpTriggerPrice > fill /\ fill > o.slTriggerPrice
            /\ o.tpLimitPrice < o.tpTriggerPrice
            /\ o.slLimitPrice < o.slTriggerPrice
            /\ o.exitAmount < 0 /\ o.exitAmount = -exitCalc.size
       ELSE /\ o.tpTriggerPrice < fill /\ fill < o.slTriggerPrice
            /\ o.tpLimitPrice > o.tpTriggerPrice
            /\ o.slLimitPrice > o.slTriggerPrice
            /\ o.exitAmount > 0 /\ o.exitAmount = exitCalc.size

\* C26 as stated: for positive percentages and a positive fill price a long
\* has TP trigger > fill > SL trigger, each limit below its trigger and the
\* exit amount -size; a short has TP trigger < fill < SL trigger, each limit
\* above its trigger and the exit amount +size
C26_ExitOrderingAnyPercent ==
  (exitCalc.pc # "fill" /\ exitCalc.tpPercent > 0 /\ exitCalc.slPercent > 0
     /\ exitCalc.fillPrice > 0) => ExitOrdering

\* C26: the same for percentages above 0 and below 100 (a trigger at or below
\* zero has its limit on the other side)
C26_ExitOrdering ==
  (exitCalc.pc # "fill" /\ exitCalc.fillPrice > 0
     /\ exitCalc.tpPercent > 0 /\ exitCalc.tpPercent < QuartersPerWhole
     /\ exitCalc.slPercent > 0 /\ exitCalc.slPercent < QuartersPerWhole) => ExitOrdering

\* a short's orders were derived with percentages below 100
C26_Witness ==
  /\ exitCalc.pc = "tpsl"
  /\ exitCalc.side = "short"
  /\ exitCalc.tpPercent = 6 /\ exitCalc.slPercent = 3
  /\ exitCalc.orders.exitAmount = exitCalc.size
  /\ exitCalc.orders.tpLimitPrice > exitCalc.orders.tpTriggerPrice

====
